---- MODULE Spec2Model ----
(***************************************************************************)
(* Model of the jupiter-design-system crate: colour providers, the fluent  *)
(* style builders and the pattern layer, as state machines over the        *)
(* builder values.                                                         *)
(*                                                                         *)
(* A Rust String is modelled as a sequence of pieces.  A piece is either   *)
(* SP (one whitespace character) or a fragment: a non-empty run of         *)
(* non-whitespace characters, held as a TLA+ string.  Adjacent fragments   *)
(* stand for adjacent characters (<<"text-", "white">> is "text-white"),   *)
(* the empty String is <<>>.  Palette values are cut so that every         *)
(* occurrence of a pattern the code replaces ("-500", "bg-", "border-")    *)
(* is a fragment of its own.                                               *)
(***************************************************************************)
EXTENDS Integers, Sequences, FiniteSets, TLC

VARIABLES
    provider,   \* the colour provider value handed to the constructor
    family,     \* which type of the crate the modelled value belongs to
    builder,    \* the builder / pattern value (its fields)
    phase,      \* "configuring", or "finalized" once the value has been moved out
    out,        \* what the latest call returned when it was not the builder itself:
                \* a String or an attribute list, <<>> after a setter
    last        \* the most recent call: [op, arg, before]

vars == <<provider, family, builder, phase, out, last>>

-----------------------------------------------------------------------------
(* Strings                                                                 *)

SP == " "

Range(s) == {s[i] : i \in DOMAIN s}

\* no element of s occurs at two positions
NoElementTwice(s) == \A i, j \in DOMAIN s : s[i] = s[j] => i = j

\* "a b c" written as its tokens
Words(ts) == [i \in 1..(2 * Len(ts) - 1) |-> IF i % 2 = 1 THEN ts[(i + 1) \div 2] ELSE SP]

is_empty(s) == s = <<>>

\* [String]::join(sep)
RECURSIVE join(_, _)
join(v, sep) ==
    IF v = <<>> THEN <<>>
    ELSE IF Len(v) = 1 THEN v[1]
    ELSE v[1] \o sep \o join(Tail(v), sep)

\* the characters of s up to the first whitespace, as one token
RECURSIVE FirstToken(_)
FirstToken(s) ==
    IF s = <<>> \/ Head(s) = SP THEN ""
    ELSE Head(s) \o FirstToken(Tail(s))

RECURSIVE AfterToken(_)
AfterToken(s) ==
    IF s = <<>> \/ Head(s) = SP THEN s ELSE AfterToken(Tail(s))

\* str::split_whitespace, collected: the maximal runs of non-whitespace
RECURSIVE split_whitespace(_)
split_whitespace(s) ==
    IF s = <<>> THEN <<>>
    ELSE IF Head(s) = SP THEN split_whitespace(Tail(s))
    ELSE <<FirstToken(s)>> \o split_whitespace(AfterToken(s))

\* a Vec<&str> / Vec<String> of tokens as a Vec of Strings
AsStrings(ts) == [i \in DOMAIN ts |-> <<ts[i]>>]

\* str::trim
RECURSIVE trim_start(_)
trim_start(s) == IF s # <<>> /\ Head(s) = SP THEN trim_start(Tail(s)) ELSE s

RECURSIVE trim_end(_)
trim_end(s) ==
    IF s # <<>> /\ s[Len(s)] = SP THEN trim_end(SubSeq(s, 1, Len(s) - 1)) ELSE s

trim(s) == trim_end(trim_start(s))

\* str::replace(from, to) for a pattern that is a fragment of its own
RECURSIVE replace(_, _, _)
replace(s, from, to) ==
    IF s = <<>> THEN <<>>
    ELSE IF Head(s) = from
         THEN (IF to = "" THEN <<>> ELSE <<to>>) \o replace(Tail(s), from, to)
         ELSE <<Head(s)>> \o replace(Tail(s), from, to)

\* the same characters with adjacent fragments merged: equal Strings have equal Chars
RECURSIVE Chars(_)
Chars(s) ==
    IF s = <<>> THEN <<>>
    ELSE IF Head(s) = SP THEN <<SP>> \o Chars(Tail(s))
    ELSE <<FirstToken(s)>> \o Chars(AfterToken(s))

\* number of occurrences of token t in the token list ts
Count(ts, t) == Cardinality({i \in DOMAIN ts : ts[i] = t})

\* a dedup that removes nothing
dedup_skipped(ts) == ts

\* Vec::dedup: removes consecutive repeated elements
RECURSIVE dedup(_)
dedup(ts) ==
    IF Len(ts) <= 1 THEN ts
    ELSE IF ts[1] = ts[2] THEN dedup(Tail(ts))
    ELSE <<ts[1]>> \o dedup(Tail(ts))

\* the tokens the builders can emit, in the byte order of str
TokenOrder == <<
\* TOKENS-BEGIN
    "active:scale-90", "active:scale-95", "animate-bounce", "animate-pulse",
    "animate-spin", "backdrop-blur-md", "bg-amber-500", "bg-black",
    "bg-emerald-400", "bg-fuchsia-500", "bg-gradient-to-br", "bg-gray-100",
    "bg-gray-300", "bg-gray-50", "bg-gray-600", "bg-gray-900", "bg-green-50",
    "bg-green-500", "bg-jupiter-blue-500", "bg-orange-400", "bg-orange-50",
    "bg-own-background", "bg-own-surface", "bg-red-50", "bg-red-500",
    "bg-rose-400", "bg-slate-900", "bg-transparent", "bg-white",
    "bg-white/10", "border", "border-4", "border-b", "border-b-2",
    "border-fuchsia-500", "border-gray-200", "border-gray-300",
    "border-gray-600", "border-gray-700", "border-jupiter-blue-500",
    "border-l", "border-own-border", "border-purple-500", "border-r",
    "border-t", "border-t-transparent", "border-transparent",
    "border-white/10", "border-white/20", "cursor-move", "cursor-not-allowed",
    "cursor-pointer", "cursor-wait", "custom-class",
    "disabled:cursor-not-allowed", "disabled:opacity-50", "duration-200",
    "duration-300", "flex", "flex-col", "flex-row", "flex-wrap",
    "focus:outline-none", "focus:ring-2", "focus:ring-offset-2", "font-bold",
    "font-extrabold", "font-light", "font-medium", "font-mono", "font-normal",
    "font-semibold", "from-jupiter-navy-900/80", "gap-1", "gap-1.5", "gap-2",
    "gap-3", "gap-4", "grid", "grid-cols-auto", "hover:bg-amber-600",
    "hover:bg-black", "hover:bg-fuchsia-400", "hover:bg-fuchsia-500",
    "hover:bg-gray-50", "hover:bg-green-600", "hover:bg-jupiter-blue-500",
    "hover:bg-jupiter-blue-600", "hover:bg-red-600",
    "hover:border-fuchsia-500", "hover:border-jupiter-blue-500",
    "hover:opacity-80", "hover:scale-101", "hover:scale-105",
    "hover:scale-110", "hover:shadow-lg", "hover:shadow-md",
    "hover:shadow-sm", "hover:shadow-xl", "hover:text-black",
    "hover:text-white", "hover:underline", "inline-flex", "items-center",
    "items-end", "items-start", "justify-around", "justify-between",
    "justify-center", "justify-end", "justify-evenly", "justify-start",
    "leading-relaxed", "min-h-screen", "ml-2", "opacity-50", "p-0", "p-1",
    "p-12", "p-2", "p-3", "p-4", "p-5", "p-6", "p-8", "px-1", "px-12",
    "px-16", "px-2", "px-3", "px-4", "px-6", "px-8", "py-0.5", "py-1",
    "py-1.5", "py-12", "py-16", "py-2", "py-20", "py-24", "py-3", "py-4",
    "py-8", "relative", "ring-2", "ring-brand-300", "ring-custom-blue-300",
    "ring-fuchsia-300", "ring-jupiter-blue-300", "ring-offset-2",
    "ring-own-primary", "rounded", "rounded-full", "rounded-lg", "rounded-md",
    "rounded-sm", "selection-item", "selection-pattern", "shadow-2xl",
    "shadow-lg", "shadow-md", "shadow-none", "shadow-sm", "space-x-2",
    "state-pattern", "text-2xl", "text-3xl", "text-4xl", "text-amber-500",
    "text-base", "text-black", "text-blue-500", "text-center",
    "text-cyan-400", "text-emerald-400", "text-fuchsia-500", "text-gray-200",
    "text-gray-300", "text-gray-400", "text-gray-600", "text-gray-900",
    "text-green-500", "text-green-600", "text-jupiter-blue-500",
    "text-jupiter-green-500", "text-jupiter-orange-500", "text-justify",
    "text-left", "text-lg", "text-lime-400", "text-orange-400",
    "text-orange-600", "text-own-text_primary", "text-red-500",
    "text-red-600", "text-right", "text-rose-400", "text-sm",
    "text-violet-400", "text-white", "text-xl", "text-xs",
    "to-jupiter-blue-900/80", "tracking-tight", "tracking-wider",
    "transition-all", "transition-colors", "truncate", "uppercase", "w-full"
\* TOKENS-END
>>

TokenRank == [t \in Range(TokenOrder) |-> CHOOSE i \in DOMAIN TokenOrder : TokenOrder[i] = t]

\* Vec<String>::sort
sort(ts) == SortSeq(ts, LAMBDA a, b : TokenRank[a] < TokenRank[b])

\* .join(" ").split_whitespace().collect(), then sort(), dedup(), join(" "):
\* the tail of the sorting builders
sorted_unique(all_classes) ==
    join(AsStrings(dedup(sort(split_whitespace(join(all_classes, <<SP>>))))), <<SP>>)

\* push onto a Vec only when the condition holds
PushIf(cond, x) == IF cond THEN <<x>> ELSE <<>>

-----------------------------------------------------------------------------
(* core/color.rs: Color, ColorPalette, ColorProvider                       *)

\* enum Color, in declaration order
Color == <<"Primary", "Secondary", "Accent", "Success", "Warning", "Error",
           "Info", "Surface", "Background", "Foreground", "Border",
           "TextPrimary", "TextSecondary", "TextTertiary", "TextInverse",
           "Interactive", "InteractiveHover", "InteractiveActive",
           "InteractiveDisabled">>

\* struct ColorPalette: its fields, in declaration order
ColorPalette == <<"primary", "secondary", "accent", "success", "warning", "error",
                  "info", "surface", "background", "foreground", "border",
                  "text_primary", "text_secondary", "text_tertiary", "text_inverse",
                  "interactive", "interactive_hover", "interactive_active",
                  "interactive_disabled">>

\* the value of a field that a struct literal does not initialise
MissingField == <<"<missing field>">>

\* resolve_color with TextTertiary reading the slot of TextSecondary
resolve_color_shifted(palette, color) ==
    IF color = "TextTertiary" THEN palette.text_secondary
    ELSE palette[ColorPalette[CHOOSE i \in DOMAIN Color : Color[i] = color]]

\* ColorProvider::resolve_color
resolve_color(palette, color) ==
    CASE color = "Primary" -> palette.primary
      [] color = "Secondary" -> palette.secondary
      [] color = "Accent" -> palette.accent
      [] color = "Success" -> palette.success
      [] color = "Warning" -> palette.warning
      [] color = "Error" -> palette.error
      [] color = "Info" -> palette.info
      [] color = "Surface" -> palette.surface
      [] color = "Background" -> palette.background
      [] color = "Foreground" -> palette.foreground
      [] color = "Border" -> palette.border
      [] color = "TextPrimary" -> palette.text_primary
      [] color = "TextSecondary" -> palette.text_secondary
      [] color = "TextTertiary" -> palette.text_tertiary
      [] color = "TextInverse" -> palette.text_inverse
      [] color = "Interactive" -> palette.interactive
      [] color = "InteractiveHover" -> palette.interactive_hover
      [] color = "InteractiveActive" -> palette.interactive_active
      [] color = "InteractiveDisabled" -> palette.interactive_disabled

\* ColorProvider::text_class: format!("text-{}", ...)
text_class(palette, color) == <<"text-">> \o resolve_color(palette, color)

\* ColorProvider::bg_class: format!("bg-{}", ...)
bg_class(palette, color) == <<"bg-">> \o resolve_color(palette, color)

\* ColorProvider::border_class: format!("border-{}", ...)
border_class(palette, color) == <<"border-">> \o resolve_color(palette, color)

\* core::color::VibeColors::default, the palette
CoreVibeColors_default ==
    [primary |-> <<"fuchsia", "-500">>, secondary |-> <<"lime-400">>,
     accent |-> <<"cyan-400">>, success |-> <<"emerald-400">>,
     warning |-> <<"orange-400">>, error |-> <<"rose-400">>,
     info |-> <<"violet-400">>, surface |-> <<"slate-900">>,
     background |-> <<"black">>, foreground |-> <<"white">>,
     border |-> <<"purple", "-500">>, text_primary |-> <<"white">>,
     text_secondary |-> <<"gray-200">>, text_tertiary |-> <<"gray-400">>,
     text_inverse |-> <<"black">>, interactive |-> <<"fuchsia", "-500">>,
     interactive_hover |-> <<"fuchsia-400">>,
     interactive_active |-> <<"fuchsia-600">>,
     interactive_disabled |-> <<"gray-600">>]

\* impl Default for ColorPalette
ColorPalette_default == CoreVibeColors_default

\* themes::VibeColors::default, the palette
ThemesVibeColors_default ==
    [primary |-> <<"jupiter-blue", "-500">>, secondary |-> <<"jupiter-green", "-500">>,
     accent |-> <<"jupiter-orange", "-500">>, success |-> <<"green", "-500">>,
     warning |-> <<"amber", "-500">>, error |-> <<"red", "-500">>,
     info |-> <<"blue", "-500">>, surface |-> <<"white">>,
     background |-> <<"gray-50">>, foreground |-> <<"gray-900">>,
     border |-> <<"gray-200">>, text_primary |-> <<"gray-900">>,
     text_secondary |-> <<"gray-600">>, text_tertiary |-> <<"gray-400">>,
     text_inverse |-> <<"white">>, interactive |-> <<"jupiter-blue", "-500">>,
     interactive_hover |-> <<"jupiter-blue-600">>,
     interactive_active |-> <<"jupiter-blue-700">>,
     interactive_disabled |-> <<"gray-300">>]

\* themes::psychedelic_theme::PsychedelicColors::default, the palette
PsychedelicColors_default ==
    [primary |-> <<"fuchsia", "-500">>, secondary |-> <<"lime-400">>,
     accent |-> <<"cyan-400">>, success |-> <<"emerald-400">>,
     warning |-> <<"orange-400">>, error |-> <<"rose-400">>,
     info |-> <<"violet-400">>, surface |-> <<"slate-900">>,
     background |-> <<"black">>, foreground |-> <<"white">>,
     border |-> <<"purple", "-500">>, text_primary |-> <<"white">>,
     text_secondary |-> <<"gray-200">>, text_tertiary |-> <<"gray-400">>,
     text_inverse |-> <<"black">>, interactive |-> <<"fuchsia", "-500">>,
     interactive_hover |-> <<"fuchsia-400">>,
     interactive_active |-> <<"fuchsia-600">>,
     interactive_disabled |-> <<"gray-600">>]

\* core::jupiter_colors::JupiterColors::default, the palette; the struct
\* literal has no `accent` field
JupiterColors_default ==
    [primary |-> <<"jupiter-orange", "-500">>, secondary |-> <<"jupiter-blue", "-500">>,
     accent |-> MissingField, success |-> <<"green", "-500">>,
     warning |-> <<"amber", "-500">>, error |-> <<"red", "-500">>,
     info |-> <<"jupiter-blue", "-500">>, surface |-> <<"jupiter-gray-50">>,
     background |-> <<"white">>, foreground |-> <<"jupiter-gray-900">>,
     border |-> <<"jupiter-gray-200">>, text_primary |-> <<"jupiter-gray-900">>,
     text_secondary |-> <<"jupiter-gray-700">>,
     text_tertiary |-> <<"jupiter-gray", "-500">>,
     text_inverse |-> <<"white">>, interactive |-> <<"jupiter-orange", "-500">>,
     interactive_hover |-> <<"jupiter-orange-600">>,
     interactive_active |-> <<"jupiter-orange-700">>,
     interactive_disabled |-> <<"jupiter-gray-300">>]

\* themes::llasi_theme::LlasiColors::default, the palette; the struct literal
\* has no `accent` field
LlasiColors_default ==
    [primary |-> <<"slate-900">>, secondary |-> <<"slate-600">>,
     accent |-> MissingField, success |-> <<"emerald-600">>,
     warning |-> <<"amber-600">>, error |-> <<"red-600">>,
     info |-> <<"blue-600">>, surface |-> <<"white">>,
     background |-> <<"amber-50">>, foreground |-> <<"slate-50">>,
     border |-> <<"slate-200">>, text_primary |-> <<"slate-900">>,
     text_secondary |-> <<"slate-600">>, text_tertiary |-> <<"slate-400">>,
     text_inverse |-> <<"white">>, interactive |-> <<"slate-900">>,
     interactive_hover |-> <<"black">>, interactive_active |-> <<"black">>,
     interactive_disabled |-> <<"slate-300">>]

\* the provider types that have a `default` and a `with_overrides` constructor
ProviderTypes == {"core::VibeColors", "themes::VibeColors", "PsychedelicColors",
                  "JupiterColors", "LlasiColors"}

\* T::default().palette
Default(T) ==
    CASE T = "core::VibeColors" -> CoreVibeColors_default
      [] T = "themes::VibeColors" -> ThemesVibeColors_default
      [] T = "PsychedelicColors" -> PsychedelicColors_default
      [] T = "JupiterColors" -> JupiterColors_default
      [] T = "LlasiColors" -> LlasiColors_default

\* the palette T::with_overrides hands to the callback
OverrideBase(T) ==
    CASE T = "core::VibeColors" -> ColorPalette_default
      [] T = "themes::VibeColors" -> ColorPalette_default
      [] T = "PsychedelicColors" -> ColorPalette_default
      [] T = "JupiterColors" -> JupiterColors_default
      [] T = "LlasiColors" -> LlasiColors_default

\* T::with_overrides(f): f is the set of assignments the callback makes,
\* a function from the fields it assigns to the values it gives them
with_overrides(T, f) ==
    [k \in DOMAIN OverrideBase(T) |->
        IF k \in DOMAIN f THEN f[k] ELSE OverrideBase(T)[k]]

\* the callbacks tried: one that assigns nothing, the ones of the tests
\* (primary and secondary, a slot with a bg- prefix), one per kind of slot,
\* and one that gives every slot a value of its own
Overrides ==
    << [k \in {} |-> <<>>],
       [primary |-> <<"custom-blue", "-500">>, secondary |-> <<"custom-green", "-500">>],
       [primary |-> <<"bg-", "brand", "-500">>],
       [accent |-> <<"teal-400">>],
       [success |-> <<"lime", "-500">>, border |-> <<"border-", "zinc-300">>],
       [k \in Range(ColorPalette) |-> <<"own-" \o k>>] >>

\* a provider value: its type, how it was constructed, its palette
NewProvider(T) ==
    [type |-> T, ctor |-> "default", assigned |-> {}, palette |-> Default(T)]

OverriddenProvider(T, f) ==
    [type |-> T, ctor |-> "with_overrides", assigned |-> DOMAIN f,
     palette |-> with_overrides(T, f)]

AllProviders ==
    {NewProvider(T) : T \in ProviderTypes}
        \cup {OverriddenProvider(T, Overrides[i]) : T \in ProviderTypes, i \in DOMAIN Overrides}

\* the palette field that stands at the position of the variant
FieldOf(color) == ColorPalette[CHOOSE i \in DOMAIN Color : Color[i] = color]

NoCall == [op |-> "new", arg |-> "", before |-> ""]

Call(op, arg) == [op |-> op, arg |-> arg, before |-> ""]

-----------------------------------------------------------------------------
(* Colour resolution on a constructed provider                             *)

ColorInit ==
    /\ provider \in AllProviders
    /\ family = "ColorProvider"
    /\ builder = "none"
    /\ phase = "constructed"
    /\ out = <<>>
    /\ last = NoCall

ResolveColor(c) ==
    /\ family = "ColorProvider"
    /\ out' = resolve_color(provider.palette, c)
    /\ last' = Call("resolve_color", c)
    /\ phase' = "resolved"
    /\ UNCHANGED <<provider, family, builder>>

TextClass(c) ==
    /\ family = "ColorProvider"
    /\ out' = text_class(provider.palette, c)
    /\ last' = Call("text_class", c)
    /\ phase' = "resolved"
    /\ UNCHANGED <<provider, family, builder>>

BgClass(c) ==
    /\ family = "ColorProvider"
    /\ out' = bg_class(provider.palette, c)
    /\ last' = Call("bg_class", c)
    /\ phase' = "resolved"
    /\ UNCHANGED <<provider, family, builder>>

BorderClass(c) ==
    /\ family = "ColorProvider"
    /\ out' = border_class(provider.palette, c)
    /\ last' = Call("border_class", c)
    /\ phase' = "resolved"
    /\ UNCHANGED <<provider, family, builder>>

ColorNext ==
    \/ \E c \in Range(Color) : ResolveColor(c)
    \/ \E c \in Range(Color) : TextClass(c)
    \/ \E c \in Range(Color) : BgClass(c)
    \/ \E c \in Range(Color) : BorderClass(c)

SpecColor == ColorInit /\ [][ColorNext]_vars

\* C8: after with_overrides(f), a Color whose slot f does not assign resolves
\* to what the provider type's own default() resolves it to.
C8_UnassignedSlotKeepsTypeDefault ==
    (provider.ctor = "with_overrides" /\ last.op = "resolve_color"
        /\ FieldOf(last.arg) \notin provider.assigned)
    => out = resolve_color(Default(provider.type), last.arg)

\* C9: resolve_color returns the palette slot of the variant, distinct
\* variants read distinct slots, and text_class, bg_class and border_class
\* are "text-", "bg-" and "border-" followed by that slot.
C9_ResolveReturnsSlotOfVariant ==
    LET slot == provider.palette[FieldOf(last.arg)] IN
    /\ last.op = "resolve_color" => out = slot
    /\ last.op = "text_class" => out = <<"text-">> \o slot
    /\ last.op = "bg_class" => out = <<"bg-">> \o slot
    /\ last.op = "border_class" => out = <<"border-">> \o slot
    /\ \A c, d \in Range(Color) :
         (c # d /\ provider.palette[FieldOf(c)] # provider.palette[FieldOf(d)])
            => resolve_color(provider.palette, c) # resolve_color(provider.palette, d)

C9_Witness ==
    /\ last.op = "text_class" /\ last.arg = "TextTertiary"
    /\ provider.assigned = Range(ColorPalette)
    /\ out = <<"text-", "own-text_tertiary">>

\* C10: on a provider built by default(), every Color including Accent has
\* its slot defined by the palette, and resolve_color returns it.
C10_DefaultPaletteDefinesEverySlot ==
    (provider.ctor = "default" /\ last.op = "resolve_color")
    => /\ provider.palette[FieldOf(last.arg)] # MissingField
       /\ out = provider.palette[FieldOf(last.arg)]

-----------------------------------------------------------------------------
(* Fluent builders: shared frame                                           *)

\* how far from the constructor's value a modelled builder may be taken:
\* the number of fields that differ from it plus the custom entries held
MaxChanged == 2

\* the token each builder emits by itself that is also passed as a custom class
OwnToken(f) ==
    CASE f = "CardStyles" -> "rounded-lg"
      [] f = "ButtonStyles" -> "inline-flex"
      [] f = "TextStyles" -> "leading-relaxed"
      [] f = "LayoutStyles" -> "p-4"
      [] f = "StateStyles" -> "flex"
      [] f = "SelectionStyles" -> "gap-2"
      [] f = "ProductBuilder" -> "product-card"
      [] OTHER -> "transition-all"

\* the Strings passed to custom(), custom_classes(): a generated token, a
\* fresh one, irregular whitespace around both, whitespace only, empty
CustomInputs(f) ==
    { <<OwnToken(f)>>,
      <<"custom-class">>,
      <<SP, SP, "custom-class", SP, SP, SP, OwnToken(f), SP>>,
      <<SP, SP>>,
      <<>> }

\* the Vecs passed to custom_vec()
CustomVecs(f) ==
    { << <<OwnToken(f)>>, <<"custom-class">> >>,
      << <<"custom-class">>, <<"custom-class", SP, SP, OwnToken(f)>> >> }

Configuring(f) == family = f /\ phase = "configuring"

\* number of fields of record b that differ from record b0, custom entries counted one each
Changed(b, b0) ==
    Cardinality({k \in DOMAIN b \ {"custom_classes"} : b[k] # b0[k]})
        + (IF "custom_classes" \in DOMAIN b THEN Len(b.custom_classes) ELSE 0)

\* append each token of a whitespace-separated String
push_each_token(v, classes) == v \o AsStrings(split_whitespace(classes))

\* a setter call: the builder moves to nb and is what the call returns
Chain(nb, new) ==
    /\ Changed(nb, new) <= MaxChanged
    /\ builder' = nb
    /\ out' = <<>>
    /\ UNCHANGED <<provider, family, phase>>

\* a terminal call that would leave the moved builder usable
Finish_borrowing(result) ==
    /\ out' = result
    /\ UNCHANGED <<provider, family, builder, phase>>

\* a terminal call taking `self`: the String is returned, the builder is moved
Finish(result) ==
    /\ out' = result
    /\ phase' = "finalized"
    /\ UNCHANGED <<provider, family, builder>>

\* a terminal call taking `&self`: the String is returned, the builder is
\* only borrowed and stays usable
Borrow(result) ==
    /\ out' = result
    /\ UNCHANGED <<provider, family, builder, phase>>

-----------------------------------------------------------------------------
(* builders/card.rs: CardStyles                                            *)

CardElevation == {"Flat", "Subtle", "Raised", "Floating", "Modal"}
CardSurface == {"Standard", "Elevated", "Branded", "Glass", "Dark", "Transparent"}
CardSpacing == {"None", "Compact", "Standard", "Comfortable", "Spacious"}
CardInteraction == {"Static", "Hoverable", "Clickable", "Selectable", "Draggable"}

CardStyles_new ==
    [elevation |-> "Subtle", surface |-> "Standard", spacing |-> "Standard",
     interaction |-> "Static", selected |-> FALSE, custom_classes |-> <<>>]

CardStyles_get_surface_classes(p, b) ==
    CASE b.surface = "Standard" ->
            bg_class(p, "Surface") \o <<SP>> \o text_class(p, "TextPrimary")
                \o <<SP>> \o border_class(p, "Border")
      [] b.surface = "Elevated" ->
            bg_class(p, "Background") \o <<SP>> \o text_class(p, "TextPrimary")
                \o <<SP>> \o border_class(p, "Border")
      [] b.surface = "Branded" ->
            Words(<<"bg-gradient-to-br", "from-jupiter-navy-900/80",
                    "to-jupiter-blue-900/80", "border-white/10", "text-white">>)
      [] b.surface = "Glass" ->
            Words(<<"bg-white/10", "backdrop-blur-md", "border-white/20", "text-white">>)
      [] b.surface = "Dark" -> Words(<<"bg-gray-900", "border-gray-700", "text-white">>)
      [] b.surface = "Transparent" -> Words(<<"bg-transparent", "border-transparent">>)

\* interaction classes that carry a hover shadow for every interaction kind
CardStyles_get_interaction_classes_lifted(b) ==
    Words(<<"hover:scale-101", "hover:shadow-md">>)

CardStyles_get_interaction_classes(b) ==
    CASE b.interaction = "Static" -> <<>>
      [] b.interaction = "Hoverable" -> Words(<<"hover:scale-101", "hover:shadow-sm">>)
      [] b.interaction = "Clickable" ->
            Words(<<"cursor-pointer", "hover:scale-105", "active:scale-95",
                    "focus:outline-none", "focus:ring-2", "focus:ring-offset-2">>)
      [] b.interaction = "Selectable" ->
            Words(<<"cursor-pointer", "hover:scale-101", "focus:outline-none",
                    "focus:ring-2", "focus:ring-offset-2">>)
      [] b.interaction = "Draggable" ->
            Words(<<"cursor-move", "hover:scale-105", "active:scale-95">>)

\* the Vec all_classes of CardStyles::build before it is joined
CardStyles_all_classes(p, b) ==
    LET elevation_classes ==
            CASE b.elevation = "Flat" -> <<"shadow-none">>
              [] b.elevation = "Subtle" -> <<"shadow-sm">>
              [] b.elevation = "Raised" -> <<"shadow-md">>
              [] b.elevation = "Floating" -> <<"shadow-lg">>
              [] b.elevation = "Modal" -> <<"shadow-2xl">>
        surface_classes == CardStyles_get_surface_classes(p, b)
        spacing_classes ==
            CASE b.spacing = "None" -> <<"p-0">>
              [] b.spacing = "Compact" -> <<"p-3">>
              [] b.spacing = "Standard" -> <<"p-5">>
              [] b.spacing = "Comfortable" -> <<"p-6">>
              [] b.spacing = "Spacious" -> <<"p-8">>
        interaction_classes == CardStyles_get_interaction_classes(b)
        ring == <<"ring-">>
                  \o replace(replace(resolve_color(p, "Primary"), "bg-", ""), "-500", "-300")
        hover ==
            IF b.interaction \in {"Hoverable", "Clickable"}
            THEN CASE b.elevation = "Subtle" -> << <<"hover:shadow-md">> >>
                   [] b.elevation = "Raised" -> << <<"hover:shadow-lg">> >>
                   [] b.elevation = "Floating" -> << <<"hover:shadow-xl">> >>
                   [] OTHER -> <<>>
            ELSE <<>>
        custom_classes == join(b.custom_classes, <<SP>>)
    IN  << Words(<<"rounded-lg", "border", "transition-all", "duration-300">>) >>
            \o <<elevation_classes>>
            \o PushIf(~is_empty(surface_classes), surface_classes)
            \o <<spacing_classes>>
            \o PushIf(~is_empty(interaction_classes), interaction_classes)
            \o (IF b.selected THEN << Words(<<"ring-2", "ring-offset-2">>), ring >> ELSE <<>>)
            \o hover
            \o PushIf(~is_empty(custom_classes), custom_classes)

\* CardStyles::build
CardStyles_build(p, b) == sorted_unique(CardStyles_all_classes(p, b))

\* a classes() that joins what was pushed without sorting
CardStyles_classes_unsorted(p, b) == join(CardStyles_all_classes(p, b), <<SP>>)

\* CardStyles::classes
CardStyles_classes(p, b) == CardStyles_build(p, b)

CardSetElevation(e) ==
    /\ Configuring("CardStyles")
    /\ Chain([builder EXCEPT !.elevation = e], CardStyles_new)
    /\ last' = NoCall

CardSetSurface(x) ==
    /\ Configuring("CardStyles")
    /\ Chain([builder EXCEPT !.surface = x], CardStyles_new)
    /\ last' = NoCall

CardSetSpacing(x) ==
    /\ Configuring("CardStyles")
    /\ Chain([builder EXCEPT !.spacing = x], CardStyles_new)
    /\ last' = NoCall

CardSetInteraction(x) ==
    /\ Configuring("CardStyles")
    /\ Chain([builder EXCEPT !.interaction = x], CardStyles_new)
    /\ last' = NoCall

\* a selected(b) that stores the opposite of what it is passed
CardSelected_inverted(x) ==
    /\ Configuring("CardStyles")
    /\ Chain([builder EXCEPT !.selected = ~x], CardStyles_new)
    /\ last' = Call("selected", x)

CardSelected(x) ==
    /\ Configuring("CardStyles")
    /\ Chain([builder EXCEPT !.selected = x], CardStyles_new)
    /\ last' = Call("selected", x)

CardCustom(class) ==
    /\ Configuring("CardStyles")
    /\ Chain([builder EXCEPT !.custom_classes = Append(@, class)], CardStyles_new)
    /\ last' = NoCall

CardCustomClasses(classes) ==
    /\ Configuring("CardStyles")
    /\ Chain([builder EXCEPT !.custom_classes = push_each_token(@, classes)], CardStyles_new)
    /\ last' = NoCall

CardCustomVec(classes) ==
    /\ Configuring("CardStyles")
    /\ Chain([builder EXCEPT !.custom_classes = @ \o classes], CardStyles_new)
    /\ last' = NoCall

CardClasses ==
    /\ Configuring("CardStyles")
    /\ Finish(CardStyles_classes(provider.palette, builder))
    /\ last' = Call("classes", "")

CardBuild ==
    /\ Configuring("CardStyles")
    /\ Finish(CardStyles_build(provider.palette, builder))
    /\ last' = Call("build", "")

CardSetters ==
    \/ \E e \in CardElevation : CardSetElevation(e)
    \/ \E x \in CardSurface : CardSetSurface(x)
    \/ \E x \in CardSpacing : CardSetSpacing(x)
    \/ \E x \in CardInteraction : CardSetInteraction(x)
    \/ \E x \in BOOLEAN : CardSelected(x)

CardCustoms ==
    \/ \E c \in CustomInputs("CardStyles") : CardCustom(c)
    \/ \E c \in CustomInputs("CardStyles") : CardCustomClasses(c)
    \/ \E v \in CustomVecs("CardStyles") : CardCustomVec(v)

-----------------------------------------------------------------------------
(* builders/button.rs: ButtonStyles                                        *)

ButtonVariant == {"Primary", "Secondary", "Success", "Warning", "Error", "Ghost", "Link"}
Size == {"XSmall", "Small", "Medium", "Large", "XLarge"}
ButtonState == {"Default", "Hover", "Active", "Disabled", "Loading"}

ButtonStyles_new ==
    [variant |-> "Primary", size |-> "Medium", state |-> "Default",
     full_width |-> FALSE, with_icon |-> FALSE, custom_classes |-> <<>>]

ButtonStyles_get_base_classes ==
    Words(<<"inline-flex", "items-center", "justify-center", "font-medium",
            "transition-colors", "duration-200", "disabled:opacity-50",
            "disabled:cursor-not-allowed">>)

ButtonStyles_get_size_classes(b) ==
    CASE b.size = "XSmall" -> Words(<<"px-2", "py-1", "text-xs", "rounded">>)
      [] b.size = "Small" -> Words(<<"px-3", "py-1.5", "text-sm", "rounded">>)
      [] b.size = "Medium" -> Words(<<"px-4", "py-2", "text-sm", "rounded-md">>)
      [] b.size = "Large" -> Words(<<"px-6", "py-3", "text-base", "rounded-md">>)
      [] b.size = "XLarge" -> Words(<<"px-8", "py-4", "text-lg", "rounded-lg">>)

\* variant classes that never consult the palette
ButtonStyles_get_variant_classes_link(p, b) == <<"bg-transparent", SP, "hover:underline">>

ButtonStyles_get_variant_classes(p, b) ==
    CASE b.variant = "Primary" ->
            bg_class(p, "Primary") \o <<SP>> \o text_class(p, "TextInverse")
                \o <<SP, "hover:">> \o bg_class(p, "InteractiveHover")
      [] b.variant = "Secondary" ->
            bg_class(p, "Surface") \o <<SP>> \o text_class(p, "TextPrimary")
                \o <<SP>> \o border_class(p, "Border") \o <<SP, "border">>
      [] b.variant = "Success" ->
            bg_class(p, "Success") \o <<SP>> \o text_class(p, "TextInverse")
                \o <<SP, "hover:bg-green-600">>
      [] b.variant = "Warning" ->
            bg_class(p, "Warning") \o <<SP>> \o text_class(p, "TextInverse")
                \o <<SP, "hover:bg-amber-600">>
      [] b.variant = "Error" ->
            bg_class(p, "Error") \o <<SP>> \o text_class(p, "TextInverse")
                \o <<SP, "hover:bg-red-600">>
      [] b.variant = "Ghost" ->
            <<"bg-transparent", SP>> \o text_class(p, "TextPrimary")
                \o <<SP, "hover:">> \o bg_class(p, "Background")
      [] b.variant = "Link" ->
            <<"bg-transparent", SP>> \o text_class(p, "Primary")
                \o <<SP, "hover:underline">>

ButtonStyles_get_state_classes(b) ==
    CASE b.state = "Default" -> <<>>
      [] b.state = "Hover" -> <<"hover:scale-105">>
      [] b.state = "Active" -> <<"active:scale-95">>
      [] b.state = "Disabled" -> Words(<<"opacity-50", "cursor-not-allowed">>)
      [] b.state = "Loading" -> <<"cursor-wait">>

\* a format!(..) that puts the custom classes in front
ButtonStyles_format_custom_first(p, b) ==
    join(b.custom_classes, <<SP>>)
        \o <<SP>> \o ButtonStyles_get_base_classes \o <<SP>> \o ButtonStyles_get_size_classes(b)
        \o <<SP>> \o ButtonStyles_get_variant_classes(p, b)
        \o <<SP>> \o ButtonStyles_get_state_classes(b)
        \o <<SP>> \o (IF b.full_width THEN <<"w-full">> ELSE <<>>)
        \o <<SP>> \o (IF b.with_icon THEN <<"space-x-2">> ELSE <<>>)

\* the format!(..) of ButtonStyles::build: seven parts, one space between each
ButtonStyles_format(p, b) ==
    LET width_classes == IF b.full_width THEN <<"w-full">> ELSE <<>>
        icon_classes == IF b.with_icon THEN <<"space-x-2">> ELSE <<>>
        custom_classes == join(b.custom_classes, <<SP>>)
    IN  ButtonStyles_get_base_classes \o <<SP>> \o ButtonStyles_get_size_classes(b)
            \o <<SP>> \o ButtonStyles_get_variant_classes(p, b)
            \o <<SP>> \o ButtonStyles_get_state_classes(b)
            \o <<SP>> \o width_classes \o <<SP>> \o icon_classes
            \o <<SP>> \o custom_classes

\* the formatted String returned as it is
normalize_whitespace_skipped(s) == s

\* .split_whitespace().collect::<Vec<&str>>().join(" ")
normalize_whitespace(s) == join(AsStrings(split_whitespace(s)), <<SP>>)

\* ButtonStyles::build
ButtonStyles_build(p, b) == normalize_whitespace(ButtonStyles_format(p, b))

\* ButtonStyles::classes
ButtonStyles_classes(p, b) == ButtonStyles_build(p, b)

ButtonSetVariant(x) ==
    /\ Configuring("ButtonStyles")
    /\ Chain([builder EXCEPT !.variant = x], ButtonStyles_new)
    /\ last' = NoCall

\* a size(x) that also puts the state back to Default
ButtonSetSize_resetting_state(x) ==
    /\ Configuring("ButtonStyles")
    /\ Chain([builder EXCEPT !.size = x, !.state = "Default"], ButtonStyles_new)
    /\ last' = NoCall

ButtonSetSize(x) ==
    /\ Configuring("ButtonStyles")
    /\ Chain([builder EXCEPT !.size = x], ButtonStyles_new)
    /\ last' = NoCall

ButtonSetState(x) ==
    /\ Configuring("ButtonStyles")
    /\ Chain([builder EXCEPT !.state = x], ButtonStyles_new)
    /\ last' = NoCall

ButtonFullWidth ==
    /\ Configuring("ButtonStyles")
    /\ Chain([builder EXCEPT !.full_width = TRUE], ButtonStyles_new)
    /\ last' = NoCall

ButtonWithIcon ==
    /\ Configuring("ButtonStyles")
    /\ Chain([builder EXCEPT !.with_icon = TRUE], ButtonStyles_new)
    /\ last' = NoCall

ButtonCustom(class) ==
    /\ Configuring("ButtonStyles")
    /\ Chain([builder EXCEPT !.custom_classes = Append(@, class)], ButtonStyles_new)
    /\ last' = NoCall

ButtonCustomClasses(classes) ==
    /\ Configuring("ButtonStyles")
    /\ Chain([builder EXCEPT !.custom_classes = push_each_token(@, classes)], ButtonStyles_new)
    /\ last' = NoCall

ButtonCustomVec(classes) ==
    /\ Configuring("ButtonStyles")
    /\ Chain([builder EXCEPT !.custom_classes = @ \o classes], ButtonStyles_new)
    /\ last' = NoCall

ButtonClasses ==
    /\ Configuring("ButtonStyles")
    /\ Finish(ButtonStyles_classes(provider.palette, builder))
    /\ last' = Call("classes", "")

ButtonBuild ==
    /\ Configuring("ButtonStyles")
    /\ Finish(ButtonStyles_build(provider.palette, builder))
    /\ last' = Call("build", "")

ButtonSetters ==
    \/ \E x \in ButtonVariant : ButtonSetVariant(x)
    \/ \E x \in Size : ButtonSetSize(x)
    \/ \E x \in ButtonState : ButtonSetState(x)
    \/ ButtonFullWidth
    \/ ButtonWithIcon

ButtonCustoms ==
    \/ \E c \in CustomInputs("ButtonStyles") : ButtonCustom(c)
    \/ \E c \in CustomInputs("ButtonStyles") : ButtonCustomClasses(c)
    \/ \E v \in CustomVecs("ButtonStyles") : ButtonCustomVec(v)

-----------------------------------------------------------------------------
(* builders/layout.rs: LayoutStyles                                        *)

LayoutDivider == {"None", "Top", "Bottom", "Left", "Right"}
LayoutSpacing == {"None", "XS", "SM", "MD", "LG", "XL", "XL2"}
LayoutDirection == {"Vertical", "Horizontal"}
LayoutAlignment == {"Start", "Center", "End", "Between", "Around", "Evenly"}

\* Option::None of the optional fields
None == "None"

LayoutStyles_new ==
    [divider |-> "None", spacing |-> "MD", alignment |-> None, direction |-> None,
     custom_classes |-> <<>>]

\* the Vec all_classes of LayoutStyles::build before it is joined
LayoutStyles_all_classes(p, b) ==
    LET divider_classes ==
            CASE b.divider = "None" -> <<>>
              [] b.divider = "Top" -> <<"border-t", SP>> \o border_class(p, "Border")
              [] b.divider = "Bottom" -> <<"border-b", SP>> \o border_class(p, "Border")
              [] b.divider = "Left" -> <<"border-l", SP>> \o border_class(p, "Border")
              [] b.divider = "Right" -> <<"border-r", SP>> \o border_class(p, "Border")
        spacing_classes ==
            CASE b.spacing = "None" -> <<>>
              [] b.spacing = "XS" -> <<"p-1">>
              [] b.spacing = "SM" -> <<"p-2">>
              [] b.spacing = "MD" -> <<"p-4">>
              [] b.spacing = "LG" -> <<"p-6">>
              [] b.spacing = "XL" -> <<"p-8">>
              [] b.spacing = "XL2" -> <<"p-12">>
        direction_classes ==
            CASE b.direction = "Vertical" -> Words(<<"flex", "flex-col">>)
              [] b.direction = "Horizontal" -> Words(<<"flex", "flex-row">>)
        alignment_classes ==
            CASE b.alignment = "Start" -> Words(<<"items-start", "justify-start">>)
              [] b.alignment = "Center" -> Words(<<"items-center", "justify-center">>)
              [] b.alignment = "End" -> Words(<<"items-end", "justify-end">>)
              [] b.alignment = "Between" -> Words(<<"items-center", "justify-between">>)
              [] b.alignment = "Around" -> Words(<<"items-center", "justify-around">>)
              [] b.alignment = "Evenly" -> Words(<<"items-center", "justify-evenly">>)
        custom_classes == join(b.custom_classes, <<SP>>)
    IN  PushIf(~is_empty(divider_classes), divider_classes)
            \o PushIf(~is_empty(spacing_classes), spacing_classes)
            \o (IF b.direction # None THEN <<direction_classes>> ELSE <<>>)
            \o (IF b.alignment # None THEN <<alignment_classes>> ELSE <<>>)
            \o PushIf(~is_empty(custom_classes), custom_classes)

\* LayoutStyles::build
LayoutStyles_build(p, b) == sorted_unique(LayoutStyles_all_classes(p, b))

\* LayoutStyles::classes
LayoutStyles_classes(p, b) == LayoutStyles_build(p, b)

LayoutSetDivider(x) ==
    /\ Configuring("LayoutStyles")
    /\ Chain([builder EXCEPT !.divider = x], LayoutStyles_new)
    /\ last' = NoCall

LayoutSetSpacing(x) ==
    /\ Configuring("LayoutStyles")
    /\ Chain([builder EXCEPT !.spacing = x], LayoutStyles_new)
    /\ last' = NoCall

LayoutSetDirection(x) ==
    /\ Configuring("LayoutStyles")
    /\ Chain([builder EXCEPT !.direction = x], LayoutStyles_new)
    /\ last' = NoCall

LayoutSetAlignment(x) ==
    /\ Configuring("LayoutStyles")
    /\ Chain([builder EXCEPT !.alignment = x], LayoutStyles_new)
    /\ last' = NoCall

LayoutCustom(class) ==
    /\ Configuring("LayoutStyles")
    /\ Chain([builder EXCEPT !.custom_classes = Append(@, class)], LayoutStyles_new)
    /\ last' = NoCall

LayoutCustomClasses(classes) ==
    /\ Configuring("LayoutStyles")
    /\ Chain([builder EXCEPT !.custom_classes = push_each_token(@, classes)], LayoutStyles_new)
    /\ last' = NoCall

LayoutClasses ==
    /\ Configuring("LayoutStyles")
    /\ Finish(LayoutStyles_classes(provider.palette, builder))
    /\ last' = Call("classes", "")

LayoutBuild ==
    /\ Configuring("LayoutStyles")
    /\ Finish(LayoutStyles_build(provider.palette, builder))
    /\ last' = Call("build", "")

LayoutSetters ==
    \/ \E x \in LayoutDivider : LayoutSetDivider(x)
    \/ \E x \in LayoutSpacing : LayoutSetSpacing(x)
    \/ \E x \in LayoutDirection : LayoutSetDirection(x)
    \/ \E x \in LayoutAlignment : LayoutSetAlignment(x)

LayoutCustoms ==
    \/ \E c \in CustomInputs("LayoutStyles") : LayoutCustom(c)
    \/ \E c \in CustomInputs("LayoutStyles") : LayoutCustomClasses(c)

-----------------------------------------------------------------------------
(* builders/state.rs: StateStyles                                          *)

StateIntent == {"Informational", "Loading", "Success", "Warning", "Error", "Empty"}
StateProminence == {"Subtle", "Standard", "Prominent"}
StateSize == {"XS", "SM", "MD", "LG", "XL"}
StateAlignment == {"Left", "Center", "Right"}
StateActionRequirement == {"None", "Optional", "Recommended", "Required"}
LoadingVariant == {"Spinner", "Dots", "Pulse", "Bars", "Skeleton"}

StateStyles_new ==
    [intent |-> "Informational", prominence |-> "Standard", size |-> "MD",
     alignment |-> "Center", action_requirement |-> "None",
     loading_variant |-> None, fullscreen |-> FALSE, custom_classes |-> <<>>]

StateStyles_get_intent_classes(p, b) ==
    CASE b.intent = "Informational" ->
            text_class(p, "TextPrimary") \o <<SP>> \o bg_class(p, "Background")
      [] b.intent = "Loading" ->
            text_class(p, "Primary") \o <<SP>> \o bg_class(p, "Background")
      [] b.intent = "Success" -> Words(<<"text-green-600", "bg-green-50">>)
      [] b.intent = "Warning" -> Words(<<"text-orange-600", "bg-orange-50">>)
      [] b.intent = "Error" -> Words(<<"text-red-600", "bg-red-50">>)
      [] b.intent = "Empty" ->
            text_class(p, "TextSecondary") \o <<SP>> \o bg_class(p, "Background")

StateStyles_get_loading_classes(variant) ==
    CASE variant = "Spinner" ->
            Words(<<"animate-spin", "border-4", "border-t-transparent", "rounded-full">>)
      [] variant = "Dots" -> Words(<<"animate-bounce", "rounded-full">>)
      [] variant = "Pulse" -> Words(<<"animate-pulse", "rounded-full">>)
      [] variant = "Bars" -> Words(<<"animate-pulse", "rounded-sm">>)
      [] variant = "Skeleton" -> Words(<<"animate-pulse", "rounded">>)

\* the Vec all_classes of StateStyles::build before it is joined
StateStyles_all_classes(p, b) ==
    LET layout_classes ==
            CASE b.alignment = "Left" ->
                    Words(<<"flex", "flex-col", "items-start", "text-left">>)
              [] b.alignment = "Center" ->
                    Words(<<"flex", "flex-col", "items-center", "text-center">>)
              [] b.alignment = "Right" ->
                    Words(<<"flex", "flex-col", "items-end", "text-right">>)
        spacing_classes ==
            CASE b.size = "XS" -> Words(<<"px-4", "py-8">>)
              [] b.size = "SM" -> Words(<<"px-6", "py-12">>)
              [] b.size = "MD" -> Words(<<"px-8", "py-16">>)
              [] b.size = "LG" -> Words(<<"px-12", "py-20">>)
              [] b.size = "XL" -> Words(<<"px-16", "py-24">>)
        intent_classes == StateStyles_get_intent_classes(p, b)
        loading_classes == StateStyles_get_loading_classes(b.loading_variant)
        custom_classes == join(b.custom_classes, <<SP>>)
    IN  << <<"state-pattern">>, layout_classes >>
            \o (IF b.fullscreen THEN << Words(<<"min-h-screen", "justify-center">>) >> ELSE <<>>)
            \o <<spacing_classes>>
            \o PushIf(~is_empty(intent_classes), intent_classes)
            \o (IF b.loading_variant # None
                THEN PushIf(~is_empty(loading_classes), loading_classes) ELSE <<>>)
            \o PushIf(~is_empty(custom_classes), custom_classes)

\* StateStyles::build
StateStyles_build(p, b) == sorted_unique(StateStyles_all_classes(p, b))

\* StateStyles::classes
StateStyles_classes(p, b) == StateStyles_build(p, b)

StateSetIntent(x) ==
    /\ Configuring("StateStyles")
    /\ Chain([builder EXCEPT !.intent = x], StateStyles_new)
    /\ last' = NoCall

StateSetProminence(x) ==
    /\ Configuring("StateStyles")
    /\ Chain([builder EXCEPT !.prominence = x], StateStyles_new)
    /\ last' = NoCall

StateSetSize(x) ==
    /\ Configuring("StateStyles")
    /\ Chain([builder EXCEPT !.size = x], StateStyles_new)
    /\ last' = NoCall

StateSetAlignment(x) ==
    /\ Configuring("StateStyles")
    /\ Chain([builder EXCEPT !.alignment = x], StateStyles_new)
    /\ last' = NoCall

StateSetActionRequirement(x) ==
    /\ Configuring("StateStyles")
    /\ Chain([builder EXCEPT !.action_requirement = x], StateStyles_new)
    /\ last' = NoCall

StateSetLoadingVariant(x) ==
    /\ Configuring("StateStyles")
    /\ Chain([builder EXCEPT !.loading_variant = x], StateStyles_new)
    /\ last' = NoCall

StateFullscreen(x) ==
    /\ Configuring("StateStyles")
    /\ Chain([builder EXCEPT !.fullscreen = x], StateStyles_new)
    /\ last' = NoCall

StateCustom(class) ==
    /\ Configuring("StateStyles")
    /\ Chain([builder EXCEPT !.custom_classes = Append(@, class)], StateStyles_new)
    /\ last' = NoCall

StateCustomClasses(classes) ==
    /\ Configuring("StateStyles")
    /\ Chain([builder EXCEPT !.custom_classes = push_each_token(@, classes)], StateStyles_new)
    /\ last' = NoCall

StateClasses ==
    /\ Configuring("StateStyles")
    /\ Finish(StateStyles_classes(provider.palette, builder))
    /\ last' = Call("classes", "")

StateBuild ==
    /\ Configuring("StateStyles")
    /\ Finish(StateStyles_build(provider.palette, builder))
    /\ last' = Call("build", "")

StateSetters ==
    \/ \E x \in StateIntent : StateSetIntent(x)
    \/ \E x \in StateProminence : StateSetProminence(x)
    \/ \E x \in StateSize : StateSetSize(x)
    \/ \E x \in StateAlignment : StateSetAlignment(x)
    \/ \E x \in StateActionRequirement : StateSetActionRequirement(x)
    \/ \E x \in LoadingVariant : StateSetLoadingVariant(x)
    \/ \E x \in BOOLEAN : StateFullscreen(x)

StateCustoms ==
    \/ \E c \in CustomInputs("StateStyles") : StateCustom(c)
    \/ \E c \in CustomInputs("StateStyles") : StateCustomClasses(c)

-----------------------------------------------------------------------------
(* builders/selection.rs: SelectionStyles                                  *)

SelectionBehavior == {"None", "Single", "Multiple", "Toggle"}
SelectionState == {"Unselected", "Selected", "PartiallySelected", "Disabled"}
SelectionDisplay == {"Button", "Chip", "ListItem", "Card", "Tab"}
SelectionLayout == {"Horizontal", "Vertical", "Grid", "Dropdown", "Inline"}
SelectionSize == {"XS", "SM", "MD", "LG", "XL"}
SelectionInteraction == {"Subtle", "Standard", "Prominent"}

SelectionStyles_new ==
    [behavior |-> "Single", state |-> "Unselected", display |-> "Button",
     layout |-> "Horizontal", size |-> "MD", interaction |-> "Standard",
     show_counts |-> FALSE, show_clear_all |-> FALSE, custom_classes |-> <<>>]

\* SelectionStyles::container_classes
SelectionStyles_container_classes(p, b) ==
    LET layout_classes ==
            CASE b.layout = "Horizontal" ->
                    Words(<<"flex", "flex-row", "gap-2", "items-center">>)
              [] b.layout = "Vertical" -> Words(<<"flex", "flex-col", "gap-2">>)
              [] b.layout = "Grid" -> Words(<<"grid", "grid-cols-auto", "gap-2">>)
              [] b.layout = "Dropdown" -> <<"relative">>
              [] b.layout = "Inline" ->
                    Words(<<"flex", "flex-wrap", "gap-2", "items-center">>)
        spacing_classes ==
            CASE b.size = "XS" -> <<"gap-1">>
              [] b.size = "SM" -> <<"gap-1.5">>
              [] b.size = "MD" -> <<"gap-2">>
              [] b.size = "LG" -> <<"gap-3">>
              [] b.size = "XL" -> <<"gap-4">>
        custom_classes == join(b.custom_classes, <<SP>>)
    IN  sorted_unique(<< <<"selection-pattern">>, layout_classes, spacing_classes >>
                        \o PushIf(~is_empty(custom_classes), custom_classes))

SelectionStyles_get_state_classes(p, b) ==
    CASE b.state = "Unselected" ->
            bg_class(p, "Surface") \o <<SP>> \o text_class(p, "TextPrimary")
                \o <<SP>> \o border_class(p, "Border")
      [] b.state = "Selected" ->
            bg_class(p, "Primary") \o <<SP>> \o text_class(p, "TextInverse")
                \o <<SP>> \o border_class(p, "Primary")
      [] b.state = "PartiallySelected" ->
            bg_class(p, "Background") \o <<SP>> \o text_class(p, "Primary")
                \o <<SP>> \o border_class(p, "Primary")
      [] b.state = "Disabled" ->
            bg_class(p, "InteractiveDisabled") \o <<SP>> \o text_class(p, "TextTertiary")
                \o <<SP>> \o border_class(p, "InteractiveDisabled")

SelectionStyles_get_interaction_classes(p, b) ==
    IF b.state = "Disabled" THEN <<"cursor-not-allowed">>
    ELSE join(
        << <<"cursor-pointer">> >>
        \o (CASE b.interaction = "Subtle" -> << <<"hover:opacity-80">> >>
              [] b.interaction = "Standard" ->
                    PushIf(b.state = "Unselected",
                           <<"hover:">> \o bg_class(p, "Background")
                               \o <<SP, "hover:">> \o border_class(p, "Interactive"))
                    \o << Words(<<"hover:scale-105", "active:scale-95">>) >>
              [] b.interaction = "Prominent" ->
                    PushIf(b.state = "Unselected",
                           <<"hover:">> \o bg_class(p, "Interactive")
                               \o <<SP, "hover:">> \o text_class(p, "TextInverse"))
                    \o << Words(<<"hover:scale-110", "active:scale-90", "shadow-lg",
                                  "hover:shadow-xl">>) >>),
        <<SP>>)

\* SelectionStyles::item_classes
SelectionStyles_item_classes(p, b) ==
    LET display_classes ==
            CASE b.display = "Button" ->
                    Words(<<"inline-flex", "items-center", "justify-center", "font-medium",
                            "rounded-md", "transition-all", "duration-200">>)
              [] b.display = "Chip" ->
                    Words(<<"inline-flex", "items-center", "rounded-full",
                            "transition-all", "duration-200">>)
              [] b.display = "ListItem" ->
                    Words(<<"flex", "items-center", "w-full", "px-3", "py-2",
                            "transition-all", "duration-200">>)
              [] b.display = "Card" ->
                    Words(<<"flex", "flex-col", "items-center", "p-4", "rounded-lg",
                            "border", "transition-all", "duration-200">>)
              [] b.display = "Tab" ->
                    Words(<<"flex", "items-center", "px-4", "py-2", "border-b-2",
                            "transition-all", "duration-200">>)
        size_classes ==
            CASE b.display = "Button" /\ b.size = "XS" -> Words(<<"px-2", "py-1", "text-xs">>)
              [] b.display = "Button" /\ b.size = "SM" -> Words(<<"px-3", "py-1.5", "text-sm">>)
              [] b.display = "Button" /\ b.size = "MD" -> Words(<<"px-4", "py-2", "text-base">>)
              [] b.display = "Button" /\ b.size = "LG" -> Words(<<"px-6", "py-3", "text-lg">>)
              [] b.display = "Button" /\ b.size = "XL" -> Words(<<"px-8", "py-4", "text-xl">>)
              [] b.display = "Chip" /\ b.size = "XS" -> Words(<<"px-2", "py-0.5", "text-xs">>)
              [] b.display = "Chip" /\ b.size = "SM" -> Words(<<"px-3", "py-1", "text-sm">>)
              [] b.display = "Chip" /\ b.size = "MD" -> Words(<<"px-3", "py-1.5", "text-base">>)
              [] b.display = "Chip" /\ b.size = "LG" -> Words(<<"px-4", "py-2", "text-lg">>)
              [] b.display = "Chip" /\ b.size = "XL" -> Words(<<"px-6", "py-3", "text-xl">>)
              [] OTHER -> Words(<<"px-4", "py-2", "text-base">>)
        state_classes == SelectionStyles_get_state_classes(p, b)
        interaction_classes == SelectionStyles_get_interaction_classes(p, b)
    IN  sorted_unique(<< <<"selection-item">>, display_classes, size_classes >>
                        \o PushIf(~is_empty(state_classes), state_classes)
                        \o PushIf(~is_empty(interaction_classes), interaction_classes))

\* SelectionStyles::count_classes
SelectionStyles_count_classes(p, b) ==
    IF ~b.show_counts THEN <<>>
    ELSE join(
        << Words(<<"ml-2", "px-2", "py-0.5", "text-xs", "rounded-full">>),
           IF b.state = "Selected"
           THEN bg_class(p, "Primary") \o <<SP>> \o text_class(p, "TextInverse")
           ELSE bg_class(p, "Background") \o <<SP>> \o text_class(p, "TextSecondary") >>,
        <<SP>>)

SelectionSetBehavior(x) ==
    /\ Configuring("SelectionStyles")
    /\ Chain([builder EXCEPT !.behavior = x], SelectionStyles_new)
    /\ last' = NoCall

SelectionSetState(x) ==
    /\ Configuring("SelectionStyles")
    /\ Chain([builder EXCEPT !.state = x], SelectionStyles_new)
    /\ last' = NoCall

SelectionSetDisplay(x) ==
    /\ Configuring("SelectionStyles")
    /\ Chain([builder EXCEPT !.display = x], SelectionStyles_new)
    /\ last' = NoCall

SelectionSetLayout(x) ==
    /\ Configuring("SelectionStyles")
    /\ Chain([builder EXCEPT !.layout = x], SelectionStyles_new)
    /\ last' = NoCall

SelectionSetSize(x) ==
    /\ Configuring("SelectionStyles")
    /\ Chain([builder EXCEPT !.size = x], SelectionStyles_new)
    /\ last' = NoCall

SelectionSetInteraction(x) ==
    /\ Configuring("SelectionStyles")
    /\ Chain([builder EXCEPT !.interaction = x], SelectionStyles_new)
    /\ last' = NoCall

SelectionWithCounts(x) ==
    /\ Configuring("SelectionStyles")
    /\ Chain([builder EXCEPT !.show_counts = x], SelectionStyles_new)
    /\ last' = NoCall

SelectionWithClearAll(x) ==
    /\ Configuring("SelectionStyles")
    /\ Chain([builder EXCEPT !.show_clear_all = x], SelectionStyles_new)
    /\ last' = NoCall

SelectionCustom(class) ==
    /\ Configuring("SelectionStyles")
    /\ Chain([builder EXCEPT !.custom_classes = Append(@, class)], SelectionStyles_new)
    /\ last' = NoCall

SelectionCustomClasses(classes) ==
    /\ Configuring("SelectionStyles")
    /\ Chain([builder EXCEPT !.custom_classes = push_each_token(@, classes)], SelectionStyles_new)
    /\ last' = NoCall

SelectionContainerClasses ==
    /\ Configuring("SelectionStyles")
    /\ Finish(SelectionStyles_container_classes(provider.palette, builder))
    /\ last' = Call("container_classes", "")

SelectionItemClasses ==
    /\ Configuring("SelectionStyles")
    /\ Borrow(SelectionStyles_item_classes(provider.palette, builder))
    /\ last' = Call("item_classes", "")

SelectionCountClasses ==
    /\ Configuring("SelectionStyles")
    /\ Borrow(SelectionStyles_count_classes(provider.palette, builder))
    /\ last' = Call("count_classes", "")

SelectionSetters ==
    \/ \E x \in SelectionBehavior : SelectionSetBehavior(x)
    \/ \E x \in SelectionState : SelectionSetState(x)
    \/ \E x \in SelectionDisplay : SelectionSetDisplay(x)
    \/ \E x \in SelectionLayout : SelectionSetLayout(x)
    \/ \E x \in SelectionSize : SelectionSetSize(x)
    \/ \E x \in SelectionInteraction : SelectionSetInteraction(x)
    \/ \E x \in BOOLEAN : SelectionWithCounts(x)
    \/ \E x \in BOOLEAN : SelectionWithClearAll(x)

SelectionCustoms ==
    \/ \E c \in CustomInputs("SelectionStyles") : SelectionCustom(c)
    \/ \E c \in CustomInputs("SelectionStyles") : SelectionCustomClasses(c)

SelectionTerminals ==
    \/ SelectionContainerClasses
    \/ SelectionItemClasses
    \/ SelectionCountClasses

-----------------------------------------------------------------------------
(* patterns/typography.rs: TypographyPattern; builders/text.rs: TextStyles *)

TypographyHierarchy == {"Title", "Heading", "Subheading", "H4", "Body", "BodyLarge",
                        "BodySmall", "Caption", "Overline", "Code"}
TypographySize == {"XS", "SM", "MD", "LG", "XL", "XL2", "XL3", "XL4"}
TypographyWeight == {"Light", "Normal", "Medium", "Semibold", "Bold", "ExtraBold"}
TypographyColor == {"Primary", "Secondary", "Accent", "Muted", "Disabled", "White",
                    "Black", "Success", "Warning", "Error", "Info", "Auto"}
TypographyAlignment == {"Left", "Center", "Right", "Justify"}

\* the line counts passed to clamp_lines
ClampLines == {0, 3}

\* enum TypographyOverflow: Normal, Truncate, Clamp(u32)
TypographyOverflow == {<<"Normal">>, <<"Truncate">>} \cup {<<"Clamp", n>> : n \in ClampLines}

\* TextStyles::new: the fields of its TypographyPattern, and custom_classes
TextStyles_new ==
    [hierarchy |-> "Body", size |-> None, weight |-> None, color |-> "Auto",
     alignment |-> None, overflow |-> <<"Normal">>, element |-> "Auto",
     custom_classes |-> <<>>]

TypographyPattern_get_hierarchy_classes(b) ==
    LET size(x) == IF b.size = None THEN <<x>> ELSE <<>>
        weight(x) == IF b.weight = None THEN <<x>> ELSE <<>>
    IN  CASE b.hierarchy = "Title" ->
                Words(<<"tracking-tight">> \o size("text-4xl") \o weight("font-bold"))
          [] b.hierarchy = "Heading" ->
                Words(<<"tracking-tight">> \o size("text-3xl") \o weight("font-bold"))
          [] b.hierarchy = "Subheading" ->
                Words(<<"tracking-tight">> \o size("text-2xl") \o weight("font-bold"))
          [] b.hierarchy = "H4" ->
                Words(<<"tracking-tight">> \o size("text-xl") \o weight("font-bold"))
          [] b.hierarchy = "Body" -> Words(size("text-base") \o weight("font-normal"))
          [] b.hierarchy = "BodyLarge" -> Words(size("text-lg") \o weight("font-normal"))
          [] b.hierarchy = "BodySmall" -> Words(size("text-sm") \o weight("font-normal"))
          [] b.hierarchy = "Caption" -> Words(size("text-sm") \o weight("font-medium"))
          [] b.hierarchy = "Overline" ->
                Words(<<"uppercase", "tracking-wider">> \o size("text-xs")
                        \o weight("font-medium"))
          [] b.hierarchy = "Code" ->
                Words(<<"font-mono", "bg-gray-100", "px-1", "py-0.5", "rounded">>
                        \o size("text-sm"))

TypographyPattern_get_size_classes(size) ==
    CASE size = "XS" -> <<"text-xs">>
      [] size = "SM" -> <<"text-sm">>
      [] size = "MD" -> <<"text-base">>
      [] size = "LG" -> <<"text-lg">>
      [] size = "XL" -> <<"text-xl">>
      [] size = "XL2" -> <<"text-2xl">>
      [] size = "XL3" -> <<"text-3xl">>
      [] size = "XL4" -> <<"text-4xl">>

TypographyPattern_get_weight_classes(weight) ==
    CASE weight = "Light" -> <<"font-light">>
      [] weight = "Normal" -> <<"font-normal">>
      [] weight = "Medium" -> <<"font-medium">>
      [] weight = "Semibold" -> <<"font-semibold">>
      [] weight = "Bold" -> <<"font-bold">>
      [] weight = "ExtraBold" -> <<"font-extrabold">>

TypographyPattern_get_color_classes(p, b) ==
    CASE b.color = "Primary" -> text_class(p, "Primary")
      [] b.color = "Secondary" -> text_class(p, "Secondary")
      [] b.color = "Accent" -> text_class(p, "Accent")
      [] b.color = "Muted" -> text_class(p, "TextSecondary")
      [] b.color = "Disabled" -> text_class(p, "InteractiveDisabled")
      [] b.color = "White" -> text_class(p, "TextInverse")
      [] b.color = "Black" -> text_class(p, "Foreground")
      [] b.color = "Success" -> text_class(p, "Success")
      [] b.color = "Warning" -> text_class(p, "Warning")
      [] b.color = "Error" -> text_class(p, "Error")
      [] b.color = "Info" -> text_class(p, "Info")
      [] b.color = "Auto" ->
            CASE b.hierarchy = "Caption" -> text_class(p, "TextSecondary")
              [] b.hierarchy = "Overline" -> text_class(p, "TextTertiary")
              [] OTHER -> text_class(p, "TextPrimary")

TypographyPattern_get_alignment_classes(alignment) ==
    CASE alignment = "Left" -> <<"text-left">>
      [] alignment = "Center" -> <<"text-center">>
      [] alignment = "Right" -> <<"text-right">>
      [] alignment = "Justify" -> <<"text-justify">>

TypographyPattern_get_overflow_classes(b) ==
    IF b.overflow = <<"Truncate">> THEN <<"truncate">> ELSE <<>>

\* TypographyPattern::classes
\* the Vec assembled by TypographyPattern::classes before it is joined
TypographyPattern_pushed(p, b) ==
    LET hierarchy_classes == TypographyPattern_get_hierarchy_classes(b)
        color_classes == TypographyPattern_get_color_classes(p, b)
        overflow_classes == TypographyPattern_get_overflow_classes(b)
    IN  << <<"leading-relaxed">> >>
        \o PushIf(~is_empty(hierarchy_classes), hierarchy_classes)
        \o (IF b.size # None THEN <<TypographyPattern_get_size_classes(b.size)>> ELSE <<>>)
        \o (IF b.weight # None
            THEN <<TypographyPattern_get_weight_classes(b.weight)>> ELSE <<>>)
        \o PushIf(~is_empty(color_classes), color_classes)
        \o (IF b.alignment # None
            THEN <<TypographyPattern_get_alignment_classes(b.alignment)>> ELSE <<>>)
        \o PushIf(~is_empty(overflow_classes), overflow_classes)

TypographyPattern_classes(p, b) == sorted_unique(TypographyPattern_pushed(p, b))

\* TextStyles::classes
TextStyles_classes(p, b) ==
    sorted_unique(<<TypographyPattern_classes(p, b)>> \o b.custom_classes)

TextSetHierarchy(x) ==
    /\ Configuring("TextStyles")
    /\ Chain([builder EXCEPT !.hierarchy = x], TextStyles_new)
    /\ last' = NoCall

TextSetSize(x) ==
    /\ Configuring("TextStyles")
    /\ Chain([builder EXCEPT !.size = x], TextStyles_new)
    /\ last' = NoCall

TextSetWeight(x) ==
    /\ Configuring("TextStyles")
    /\ Chain([builder EXCEPT !.weight = x], TextStyles_new)
    /\ last' = NoCall

TextSetColor(x) ==
    /\ Configuring("TextStyles")
    /\ Chain([builder EXCEPT !.color = x], TextStyles_new)
    /\ last' = NoCall

TextSetAlignment(x) ==
    /\ Configuring("TextStyles")
    /\ Chain([builder EXCEPT !.alignment = x], TextStyles_new)
    /\ last' = NoCall

TextSetOverflow(x) ==
    /\ Configuring("TextStyles")
    /\ Chain([builder EXCEPT !.overflow = x], TextStyles_new)
    /\ last' = NoCall

TextCustomClasses(classes) ==
    /\ Configuring("TextStyles")
    /\ Chain([builder EXCEPT !.custom_classes =
                    IF ~is_empty(classes) THEN Append(@, classes) ELSE @], TextStyles_new)
    /\ last' = NoCall

TextClasses ==
    /\ Configuring("TextStyles")
    /\ Borrow(TextStyles_classes(provider.palette, builder))
    /\ last' = Call("classes", "")

TextSetters ==
    \/ \E x \in TypographyHierarchy : TextSetHierarchy(x)
    \/ \E x \in TypographySize : TextSetSize(x)
    \/ \E x \in TypographyWeight : TextSetWeight(x)
    \/ \E x \in TypographyColor : TextSetColor(x)
    \/ \E x \in TypographyAlignment : TextSetAlignment(x)
    \/ \E x \in TypographyOverflow : TextSetOverflow(x)

TextCustoms == \E c \in CustomInputs("TextStyles") : TextCustomClasses(c)

-----------------------------------------------------------------------------
(* The builders driven through typed setters, custom classes and build     *)

\* the providers the builders are constructed with
StyleProviders == {NewProvider("themes::VibeColors"), NewProvider("core::VibeColors")}

StyleFamilies == {"CardStyles", "ButtonStyles", "LayoutStyles", "StateStyles",
                  "SelectionStyles", "TextStyles"}

New(f) ==
    CASE f = "CardStyles" -> CardStyles_new
      [] f = "ButtonStyles" -> ButtonStyles_new
      [] f = "LayoutStyles" -> LayoutStyles_new
      [] f = "StateStyles" -> StateStyles_new
      [] f = "SelectionStyles" -> SelectionStyles_new
      [] f = "TextStyles" -> TextStyles_new

StylesInit ==
    /\ provider \in StyleProviders
    /\ family \in StyleFamilies
    /\ builder = New(family)
    /\ phase = "configuring"
    /\ out = <<>>
    /\ last = NoCall

StylesNext ==
    \/ CardSetters
    \/ CardCustoms
    \/ CardClasses
    \/ CardBuild
    \/ ButtonSetters
    \/ ButtonCustoms
    \/ ButtonClasses
    \/ ButtonBuild
    \/ LayoutSetters
    \/ LayoutCustoms
    \/ LayoutClasses
    \/ LayoutBuild
    \/ StateSetters
    \/ StateCustoms
    \/ StateClasses
    \/ StateBuild
    \/ SelectionSetters
    \/ SelectionCustoms
    \/ SelectionTerminals
    \/ TextSetters
    \/ TextCustoms
    \/ TextClasses

SpecStyles == StylesInit /\ [][StylesNext]_vars

-----------------------------------------------------------------------------
(* CardStyles over several palettes                                        *)

\* the default theme, the override of the tests (primary "custom-blue-500"),
\* a primary that carries a bg- prefix, and a primary without a -500 shade
CardProviders ==
    { NewProvider("themes::VibeColors"),
      OverriddenProvider("core::VibeColors", Overrides[2]),
      OverriddenProvider("core::VibeColors", Overrides[3]),
      OverriddenProvider("core::VibeColors", Overrides[6]) }

CardInit ==
    /\ provider \in CardProviders
    /\ family = "CardStyles"
    /\ builder = CardStyles_new
    /\ phase = "configuring"
    /\ out = <<>>
    /\ last = NoCall

CardNext ==
    \/ CardSetters
    \/ CardCustoms
    \/ CardClasses
    \/ CardBuild

SpecCard == CardInit /\ [][CardNext]_vars

-----------------------------------------------------------------------------
(* The string-keyed setters                                                *)

\* strings that no match arm of any string-keyed setter lists
Unrecognised == {"", "invalid-value"}

\* how far from the constructor's value a builder is taken by string-keyed
\* setters: the number of fields that differ from it
MaxStrChanged == 1

\* a string-keyed setter call: the builder moves to nb, the call is recorded
\* with the value the field held before
StrCall(f, op, field, s, nb) ==
    /\ Configuring(f)
    /\ Changed(nb, New(f)) <= MaxStrChanged
    /\ builder' = nb
    /\ last' = [op |-> op, arg |-> s, before |-> builder[field]]
    /\ out' = <<>>
    /\ UNCHANGED <<provider, family, phase>>

\* a variant_str that ignores the strings it does not recognise
ButtonStyles_variant_str_ignoring(b, s) ==
    [b EXCEPT !.variant =
        CASE s = "primary" -> "Primary"
          [] s = "secondary" -> "Secondary"
          [] s = "outline" -> "Secondary"
          [] s = "success" -> "Success"
          [] s = "warning" -> "Warning"
          [] s = "error" -> "Error"
          [] s = "danger" -> "Error"
          [] s = "ghost" -> "Ghost"
          [] s = "link" -> "Link"
          [] s = "water" -> "Primary"
          [] OTHER -> @]

\* ButtonStyles::variant_str
ButtonStyles_variant_str(b, s) ==
    [b EXCEPT !.variant =
        CASE s = "primary" -> "Primary"
          [] s = "secondary" -> "Secondary"
          [] s = "outline" -> "Secondary"
          [] s = "success" -> "Success"
          [] s = "warning" -> "Warning"
          [] s = "error" -> "Error"
          [] s = "danger" -> "Error"
          [] s = "ghost" -> "Ghost"
          [] s = "link" -> "Link"
          [] s = "water" -> "Primary"
          [] OTHER -> "Primary"]

\* ButtonStyles::size_str
ButtonStyles_size_str(b, s) ==
    [b EXCEPT !.size =
        CASE s \in {"xs", "extra_small"} -> "XSmall"
          [] s \in {"sm", "small"} -> "Small"
          [] s \in {"md", "medium"} -> "Medium"
          [] s \in {"lg", "large"} -> "Large"
          [] s \in {"xl", "extra_large"} -> "XLarge"
          [] OTHER -> "Medium"]

\* ButtonStyles::state_str
ButtonStyles_state_str(b, s) ==
    [b EXCEPT !.state =
        CASE s = "default" -> "Default"
          [] s = "hover" -> "Hover"
          [] s = "active" -> "Active"
          [] s = "disabled" -> "Disabled"
          [] s = "loading" -> "Loading"
          [] OTHER -> "Default"]

\* CardStyles::elevation_str
CardStyles_elevation_str(b, s) ==
    [b EXCEPT !.elevation =
        CASE s \in {"flat", "none"} -> "Flat"
          [] s \in {"subtle", "low"} -> "Subtle"
          [] s \in {"raised", "standard"} -> "Raised"
          [] s \in {"floating", "high"} -> "Floating"
          [] s \in {"modal", "highest"} -> "Modal"
          [] OTHER -> "Subtle"]

\* CardStyles::surface_str
CardStyles_surface_str(b, s) ==
    [b EXCEPT !.surface =
        CASE s \in {"standard", "white"} -> "Standard"
          [] s = "elevated" -> "Elevated"
          [] s \in {"branded", "theme"} -> "Branded"
          [] s = "glass" -> "Glass"
          [] s = "dark" -> "Dark"
          [] s \in {"transparent", "clear"} -> "Transparent"
          [] OTHER -> "Standard"]

\* CardStyles::spacing_str
CardStyles_spacing_str(b, s) ==
    [b EXCEPT !.spacing =
        CASE s = "none" -> "None"
          [] s \in {"compact", "sm"} -> "Compact"
          [] s \in {"standard", "md"} -> "Standard"
          [] s \in {"comfortable", "lg"} -> "Comfortable"
          [] s \in {"spacious", "xl"} -> "Spacious"
          [] OTHER -> "Standard"]

\* CardStyles::interaction_str
CardStyles_interaction_str(b, s) ==
    [b EXCEPT !.interaction =
        CASE s \in {"static", "none"} -> "Static"
          [] s \in {"hoverable", "hover"} -> "Hoverable"
          [] s \in {"clickable", "click"} -> "Clickable"
          [] s \in {"selectable", "select"} -> "Selectable"
          [] s \in {"draggable", "drag"} -> "Draggable"
          [] OTHER -> "Static"]

\* StateStyles::intent_str
StateStyles_intent_str(b, s) ==
    [b EXCEPT !.intent =
        CASE s \in {"informational", "info"} -> "Informational"
          [] s = "loading" -> "Loading"
          [] s = "success" -> "Success"
          [] s \in {"warning", "warn"} -> "Warning"
          [] s = "error" -> "Error"
          [] s = "empty" -> "Empty"
          [] OTHER -> "Informational"]

\* StateStyles::prominence_str
StateStyles_prominence_str(b, s) ==
    [b EXCEPT !.prominence =
        CASE s = "subtle" -> "Subtle"
          [] s = "standard" -> "Standard"
          [] s = "prominent" -> "Prominent"
          [] OTHER -> "Standard"]

\* StateStyles::size_str
StateStyles_size_str(b, s) ==
    [b EXCEPT !.size =
        CASE s = "xs" -> "XS"
          [] s = "sm" -> "SM"
          [] s = "md" -> "MD"
          [] s = "lg" -> "LG"
          [] s = "xl" -> "XL"
          [] OTHER -> "MD"]

\* StateStyles::alignment_str
StateStyles_alignment_str(b, s) ==
    [b EXCEPT !.alignment =
        CASE s = "left" -> "Left"
          [] s = "center" -> "Center"
          [] s = "right" -> "Right"
          [] OTHER -> "Center"]

\* StateStyles::loading_variant_str
StateStyles_loading_variant_str(b, s) ==
    [b EXCEPT !.loading_variant =
        CASE s = "spinner" -> "Spinner"
          [] s = "dots" -> "Dots"
          [] s = "pulse" -> "Pulse"
          [] s = "bars" -> "Bars"
          [] s = "skeleton" -> "Skeleton"
          [] OTHER -> None]

\* SelectionStyles::behavior_str
SelectionStyles_behavior_str(b, s) ==
    [b EXCEPT !.behavior =
        CASE s = "none" -> "None"
          [] s = "single" -> "Single"
          [] s = "multiple" -> "Multiple"
          [] s = "toggle" -> "Toggle"
          [] OTHER -> "Single"]

\* SelectionStyles::state_str
SelectionStyles_state_str(b, s) ==
    [b EXCEPT !.state =
        CASE s \in {"unselected", "inactive"} -> "Unselected"
          [] s \in {"selected", "active"} -> "Selected"
          [] s = "partial" -> "PartiallySelected"
          [] s = "disabled" -> "Disabled"
          [] OTHER -> "Unselected"]

\* SelectionStyles::display_str
SelectionStyles_display_str(b, s) ==
    [b EXCEPT !.display =
        CASE s = "button" -> "Button"
          [] s = "chip" -> "Chip"
          [] s \in {"list", "list-item"} -> "ListItem"
          [] s = "card" -> "Card"
          [] s = "tab" -> "Tab"
          [] OTHER -> "Button"]

\* SelectionStyles::layout_str
SelectionStyles_layout_str(b, s) ==
    [b EXCEPT !.layout =
        CASE s = "horizontal" -> "Horizontal"
          [] s = "vertical" -> "Vertical"
          [] s = "grid" -> "Grid"
          [] s = "dropdown" -> "Dropdown"
          [] s = "inline" -> "Inline"
          [] OTHER -> "Horizontal"]

\* SelectionStyles::size_str
SelectionStyles_size_str(b, s) ==
    [b EXCEPT !.size =
        CASE s = "xs" -> "XS"
          [] s = "sm" -> "SM"
          [] s = "md" -> "MD"
          [] s = "lg" -> "LG"
          [] s = "xl" -> "XL"
          [] OTHER -> "MD"]

\* SelectionStyles::interaction_str
SelectionStyles_interaction_str(b, s) ==
    [b EXCEPT !.interaction =
        CASE s = "subtle" -> "Subtle"
          [] s = "standard" -> "Standard"
          [] s = "prominent" -> "Prominent"
          [] OTHER -> "Standard"]

\* TextStyles::hierarchy_str
TextStyles_hierarchy_str(b, s) ==
    [b EXCEPT !.hierarchy =
        CASE s = "title" -> "Title"
          [] s = "heading" -> "Heading"
          [] s = "subheading" -> "Subheading"
          [] s = "h4" -> "H4"
          [] s = "body" -> "Body"
          [] s = "body-large" -> "BodyLarge"
          [] s = "body-small" -> "BodySmall"
          [] s = "caption" -> "Caption"
          [] s = "overline" -> "Overline"
          [] s = "code" -> "Code"
          [] OTHER -> "Body"]

\* a size_str that falls back to MD
TextStyles_size_str_fallback(b, s) == [b EXCEPT !.size = "MD"]

\* TextStyles::size_str
TextStyles_size_str(b, s) ==
    CASE s = "xs" -> [b EXCEPT !.size = "XS"]
      [] s = "sm" -> [b EXCEPT !.size = "SM"]
      [] s = "md" -> [b EXCEPT !.size = "MD"]
      [] s = "lg" -> [b EXCEPT !.size = "LG"]
      [] s = "xl" -> [b EXCEPT !.size = "XL"]
      [] s = "2xl" -> [b EXCEPT !.size = "XL2"]
      [] s = "3xl" -> [b EXCEPT !.size = "XL3"]
      [] s = "4xl" -> [b EXCEPT !.size = "XL4"]
      [] OTHER -> b

\* TextStyles::weight_str
TextStyles_weight_str(b, s) ==
    CASE s = "light" -> [b EXCEPT !.weight = "Light"]
      [] s = "normal" -> [b EXCEPT !.weight = "Normal"]
      [] s = "medium" -> [b EXCEPT !.weight = "Medium"]
      [] s = "semibold" -> [b EXCEPT !.weight = "Semibold"]
      [] s = "bold" -> [b EXCEPT !.weight = "Bold"]
      [] s = "extrabold" -> [b EXCEPT !.weight = "ExtraBold"]
      [] OTHER -> b

\* TextStyles::color_str
TextStyles_color_str(b, s) ==
    CASE s = "primary" -> [b EXCEPT !.color = "Primary"]
      [] s = "secondary" -> [b EXCEPT !.color = "Secondary"]
      [] s = "accent" -> [b EXCEPT !.color = "Accent"]
      [] s = "muted" -> [b EXCEPT !.color = "Muted"]
      [] s = "disabled" -> [b EXCEPT !.color = "Disabled"]
      [] s = "white" -> [b EXCEPT !.color = "White"]
      [] s = "black" -> [b EXCEPT !.color = "Black"]
      [] s = "success" -> [b EXCEPT !.color = "Success"]
      [] s = "warning" -> [b EXCEPT !.color = "Warning"]
      [] s = "error" -> [b EXCEPT !.color = "Error"]
      [] s = "info" -> [b EXCEPT !.color = "Info"]
      [] s = "auto" -> [b EXCEPT !.color = "Auto"]
      [] OTHER -> b

\* TextStyles::alignment_str
TextStyles_alignment_str(b, s) ==
    CASE s = "left" -> [b EXCEPT !.alignment = "Left"]
      [] s = "center" -> [b EXCEPT !.alignment = "Center"]
      [] s = "right" -> [b EXCEPT !.alignment = "Right"]
      [] s = "justify" -> [b EXCEPT !.alignment = "Justify"]
      [] OTHER -> b

\* the strings passed to the string-keyed setters of a field: the ones the
\* match arms list for some field of that name, and the unrecognised ones
StrInputs(field) ==
    Unrecognised \cup
    CASE field = "variant" -> {"primary", "secondary", "outline", "success", "warning",
                               "error", "danger", "ghost", "link", "water"}
      [] field = "size" -> {"xs", "extra_small", "sm", "small", "md", "medium", "lg",
                            "large", "xl", "extra_large", "2xl", "3xl", "4xl"}
      [] field = "state" -> {"default", "hover", "active", "disabled", "loading",
                             "unselected", "inactive", "selected", "partial"}
      [] field = "elevation" -> {"flat", "none", "subtle", "low", "raised", "standard",
                                 "floating", "high", "modal", "highest"}
      [] field = "surface" -> {"standard", "white", "elevated", "branded", "theme",
                               "glass", "dark", "transparent", "clear"}
      [] field = "spacing" -> {"none", "compact", "sm", "standard", "md", "comfortable",
                               "lg", "spacious", "xl"}
      [] field = "interaction" -> {"static", "none", "hoverable", "hover", "clickable",
                                   "click", "selectable", "select", "draggable", "drag",
                                   "subtle", "standard", "prominent"}
      [] field = "intent" -> {"informational", "info", "loading", "success", "warning",
                              "warn", "error", "empty"}
      [] field = "prominence" -> {"subtle", "standard", "prominent"}
      [] field = "alignment" -> {"left", "center", "right", "justify"}
      [] field = "loading_variant" -> {"spinner", "dots", "pulse", "bars", "skeleton"}
      [] field = "behavior" -> {"none", "single", "multiple", "toggle"}
      [] field = "display" -> {"button", "chip", "list", "list-item", "card", "tab"}
      [] field = "layout" -> {"horizontal", "vertical", "grid", "dropdown", "inline"}
      [] field = "hierarchy" -> {"title", "heading", "subheading", "h4", "body",
                                 "body-large", "body-small", "caption", "overline", "code"}
      [] field = "weight" -> {"light", "normal", "medium", "semibold", "bold", "extrabold"}
      [] field = "color" -> {"primary", "secondary", "accent", "muted", "disabled", "white",
                             "black", "success", "warning", "error", "info", "auto"}

ButtonVariantStr(s) ==
    StrCall("ButtonStyles", "variant_str", "variant", s, ButtonStyles_variant_str(builder, s))
ButtonSizeStr(s) ==
    StrCall("ButtonStyles", "size_str", "size", s, ButtonStyles_size_str(builder, s))
ButtonStateStr(s) ==
    StrCall("ButtonStyles", "state_str", "state", s, ButtonStyles_state_str(builder, s))

CardElevationStr(s) ==
    StrCall("CardStyles", "elevation_str", "elevation", s, CardStyles_elevation_str(builder, s))
CardSurfaceStr(s) ==
    StrCall("CardStyles", "surface_str", "surface", s, CardStyles_surface_str(builder, s))
CardSpacingStr(s) ==
    StrCall("CardStyles", "spacing_str", "spacing", s, CardStyles_spacing_str(builder, s))
CardInteractionStr(s) ==
    StrCall("CardStyles", "interaction_str", "interaction", s,
            CardStyles_interaction_str(builder, s))

StateIntentStr(s) ==
    StrCall("StateStyles", "intent_str", "intent", s, StateStyles_intent_str(builder, s))
StateProminenceStr(s) ==
    StrCall("StateStyles", "prominence_str", "prominence", s,
            StateStyles_prominence_str(builder, s))
StateSizeStr(s) ==
    StrCall("StateStyles", "size_str", "size", s, StateStyles_size_str(builder, s))
StateAlignmentStr(s) ==
    StrCall("StateStyles", "alignment_str", "alignment", s,
            StateStyles_alignment_str(builder, s))
StateLoadingVariantStr(s) ==
    StrCall("StateStyles", "loading_variant_str", "loading_variant", s,
            StateStyles_loading_variant_str(builder, s))

SelectionBehaviorStr(s) ==
    StrCall("SelectionStyles", "behavior_str", "behavior", s,
            SelectionStyles_behavior_str(builder, s))
SelectionStateStr(s) ==
    StrCall("SelectionStyles", "state_str", "state", s, SelectionStyles_state_str(builder, s))
SelectionDisplayStr(s) ==
    StrCall("SelectionStyles", "display_str", "display", s,
            SelectionStyles_display_str(builder, s))
SelectionLayoutStr(s) ==
    StrCall("SelectionStyles", "layout_str", "layout", s,
            SelectionStyles_layout_str(builder, s))
SelectionSizeStr(s) ==
    StrCall("SelectionStyles", "size_str", "size", s, SelectionStyles_size_str(builder, s))
SelectionInteractionStr(s) ==
    StrCall("SelectionStyles", "interaction_str", "interaction", s,
            SelectionStyles_interaction_str(builder, s))

TextHierarchyStr(s) ==
    StrCall("TextStyles", "hierarchy_str", "hierarchy", s,
            TextStyles_hierarchy_str(builder, s))
TextSizeStr(s) ==
    StrCall("TextStyles", "size_str", "size", s, TextStyles_size_str(builder, s))
TextWeightStr(s) ==
    StrCall("TextStyles", "weight_str", "weight", s, TextStyles_weight_str(builder, s))
TextColorStr(s) ==
    StrCall("TextStyles", "color_str", "color", s, TextStyles_color_str(builder, s))
TextAlignmentStr(s) ==
    StrCall("TextStyles", "alignment_str", "alignment", s,
            TextStyles_alignment_str(builder, s))

StrSetters ==
    \/ \E s \in StrInputs("variant") : ButtonVariantStr(s)
    \/ \E s \in StrInputs("size") : ButtonSizeStr(s)
    \/ \E s \in StrInputs("state") : ButtonStateStr(s)
    \/ \E s \in StrInputs("elevation") : CardElevationStr(s)
    \/ \E s \in StrInputs("surface") : CardSurfaceStr(s)
    \/ \E s \in StrInputs("spacing") : CardSpacingStr(s)
    \/ \E s \in StrInputs("interaction") : CardInteractionStr(s)
    \/ \E s \in StrInputs("intent") : StateIntentStr(s)
    \/ \E s \in StrInputs("prominence") : StateProminenceStr(s)
    \/ \E s \in StrInputs("size") : StateSizeStr(s)
    \/ \E s \in StrInputs("alignment") : StateAlignmentStr(s)
    \/ \E s \in StrInputs("loading_variant") : StateLoadingVariantStr(s)
    \/ \E s \in StrInputs("behavior") : SelectionBehaviorStr(s)
    \/ \E s \in StrInputs("state") : SelectionStateStr(s)
    \/ \E s \in StrInputs("display") : SelectionDisplayStr(s)
    \/ \E s \in StrInputs("layout") : SelectionLayoutStr(s)
    \/ \E s \in StrInputs("size") : SelectionSizeStr(s)
    \/ \E s \in StrInputs("interaction") : SelectionInteractionStr(s)
    \/ \E s \in StrInputs("hierarchy") : TextHierarchyStr(s)
    \/ \E s \in StrInputs("size") : TextSizeStr(s)
    \/ \E s \in StrInputs("weight") : TextWeightStr(s)
    \/ \E s \in StrInputs("color") : TextColorStr(s)
    \/ \E s \in StrInputs("alignment") : TextAlignmentStr(s)

\* the builders that have string-keyed setters, on one provider
StrFamilies == {"ButtonStyles", "CardStyles", "StateStyles", "SelectionStyles", "TextStyles"}

StrInit ==
    /\ provider = NewProvider("themes::VibeColors")
    /\ family \in StrFamilies
    /\ builder = New(family)
    /\ phase = "configuring"
    /\ out = <<>>
    /\ last = NoCall

StrNext ==
    \/ StrSetters
    \/ ButtonClasses
    \/ ButtonBuild
    \/ CardBuild
    \/ StateBuild
    \/ SelectionTerminals
    \/ TextClasses

SpecStr == StrInit /\ [][StrNext]_vars

-----------------------------------------------------------------------------
(* Properties of the terminal output of the builders                       *)

Finalized(f) == phase = "finalized" /\ family = f

\* the methods that return the class String
TerminalOps == {"classes", "build", "container_classes", "item_classes", "count_classes"}

\* the latest call was a terminal one: out is what it returned for builder
Returned == last.op \in TerminalOps

\* no token of the String s occurs twice
NoDuplicateTokens(s) ==
    LET ts == split_whitespace(s)
    IN  \A i, j \in DOMAIN ts : i # j => ts[i] # ts[j]

\* the tokens of the custom classes held by the builder
CustomTokens == Range(split_whitespace(join(builder.custom_classes, <<SP>>)))

\* s has no leading, trailing or repeated whitespace: it is what splitting it
\* on whitespace and joining with one space gives
SingleSpaced(s) == Chars(s) = Chars(join(AsStrings(split_whitespace(s)), <<SP>>))

SortingFamilies == {"CardStyles", "LayoutStyles", "StateStyles", "SelectionStyles",
                    "TextStyles"}

\* C1: in the terminal output of CardStyles, LayoutStyles, StateStyles,
\* SelectionStyles and TextStyles no token occurs twice, and a custom class
\* equal to a generated token is there once.
C1_SortingBuildersEmitEachTokenOnce ==
    (Returned /\ family \in SortingFamilies)
    => /\ NoDuplicateTokens(out)
       /\ last.op \in {"classes", "build", "container_classes"}
            => \A t \in CustomTokens : Count(split_whitespace(out), t) = 1

C1_Witness ==
    /\ Finalized("CardStyles")
    /\ <<"rounded-lg">> \in Range(builder.custom_classes)
    /\ Count(split_whitespace(out), "rounded-lg") = 1

\* C2: the output of ButtonStyles::classes() and build() holds no token twice.
C2_ButtonStylesEmitsEachTokenOnce ==
    Finalized("ButtonStyles") => NoDuplicateTokens(out)

\* C4: the output of ButtonStyles, CardStyles, TextStyles, LayoutStyles,
\* SelectionStyles and StateStyles has no leading, trailing or repeated
\* whitespace, whatever the custom classes were.
C4_OutputIsSingleSpaced ==
    (Returned
        /\ family \in {"ButtonStyles", "CardStyles", "TextStyles", "LayoutStyles",
                       "SelectionStyles", "StateStyles"})
    => SingleSpaced(out)

C4_Witness ==
    /\ Finalized("ButtonStyles")
    /\ <<SP, SP>> \in Range(builder.custom_classes)
    /\ builder.state = "Default"
    /\ out # <<>>

\* the tokens ts are in strictly ascending byte order
StrictlyAscending(ts) ==
    \A i \in 1..(Len(ts) - 1) : TokenRank[ts[i]] < TokenRank[ts[i + 1]]

\* C12: the tokens of the terminal output of CardStyles, LayoutStyles,
\* StateStyles and SelectionStyles are in strictly ascending lexicographic
\* order.
C12_SortingBuildersEmitAscendingTokens ==
    (Returned /\ family \in {"CardStyles", "LayoutStyles", "StateStyles", "SelectionStyles"})
    => StrictlyAscending(split_whitespace(out))

\* the tokens ts with every repeat of an earlier token removed
RECURSIVE first_occurrences(_)
first_occurrences(ts) ==
    IF ts = <<>> THEN <<>>
    ELSE LET init == first_occurrences(SubSeq(ts, 1, Len(ts) - 1))
         IN  IF ts[Len(ts)] \in Range(init) THEN init ELSE Append(init, ts[Len(ts)])

\* C13: the tokens of TextStyles::classes() are in assembly order: the
\* generated typography classes as pushed, then the custom classes in the
\* order they were added, with repeats and extra whitespace removed.
C13_TextKeepsAssemblyOrder ==
    (Returned /\ family = "TextStyles")
    => split_whitespace(out)
         = first_occurrences(split_whitespace(
               join(TypographyPattern_pushed(provider.palette, builder)
                        \o builder.custom_classes, <<SP>>)))

\* the tokens of a Vec of class Strings, in order
TokensOf(v) == split_whitespace(join(v, <<SP>>))

\* ts is an initial segment of us
IsPrefix(ts, us) == Len(ts) <= Len(us) /\ SubSeq(us, 1, Len(ts)) = ts

\* C14: the output of ButtonStyles is, in this order, the base tokens, the
\* size tokens, the variant tokens, the state tokens, w-full if set,
\* space-x-2 if set, then the custom classes; and every custom, custom_classes
\* and custom_vec call adds its classes behind the ones added before.
C14_ButtonOutputIsOrderedConcatenation ==
    /\ [](Finalized("ButtonStyles")
            => split_whitespace(out)
                 = split_whitespace(ButtonStyles_get_base_classes)
                   \o split_whitespace(ButtonStyles_get_size_classes(builder))
                   \o split_whitespace(ButtonStyles_get_variant_classes(provider.palette, builder))
                   \o split_whitespace(ButtonStyles_get_state_classes(builder))
                   \o (IF builder.full_width THEN <<"w-full">> ELSE <<>>)
                   \o (IF builder.with_icon THEN <<"space-x-2">> ELSE <<>>)
                   \o TokensOf(builder.custom_classes))
    /\ [][family = "ButtonStyles"
            => IsPrefix(TokensOf(builder.custom_classes), TokensOf(builder'.custom_classes))]_vars

C14_Witness ==
    /\ Finalized("ButtonStyles")
    /\ Len(builder.custom_classes) = 2
    /\ TokensOf(builder.custom_classes) = <<"custom-class", "inline-flex">>

\* the builders that have both classes() and build()
AliasFamilies == {"ButtonStyles", "CardStyles", "StateStyles", "LayoutStyles"}

ClassesOf(f, p, b) ==
    CASE f = "ButtonStyles" -> ButtonStyles_classes(p, b)
      [] f = "CardStyles" -> CardStyles_classes(p, b)
      [] f = "StateStyles" -> StateStyles_classes(p, b)
      [] f = "LayoutStyles" -> LayoutStyles_classes(p, b)

BuildOf(f, p, b) ==
    CASE f = "ButtonStyles" -> ButtonStyles_build(p, b)
      [] f = "CardStyles" -> CardStyles_build(p, b)
      [] f = "StateStyles" -> StateStyles_build(p, b)
      [] f = "LayoutStyles" -> LayoutStyles_build(p, b)

\* C15: for ButtonStyles, CardStyles, StateStyles and LayoutStyles, what
\* classes() returned is what build() returns on an equal builder, and what
\* build() returned is what classes() returns on an equal builder.
C15_ClassesAndBuildAgree ==
    (phase = "finalized" /\ family \in AliasFamilies)
    => /\ last.op \in {"classes", "build"}
       /\ out = ClassesOf(family, provider.palette, builder)
       /\ out = BuildOf(family, provider.palette, builder)

C15_Witness ==
    /\ Finalized("StateStyles")
    /\ last.op = "build"
    /\ Len(builder.custom_classes) = 1
    /\ out = StateStyles_classes(provider.palette, builder)

\* the padding pair documented for each size
PaddingPair(size) ==
    CASE size = "XSmall" -> <<"px-2", "py-1">>
      [] size = "Small" -> <<"px-3", "py-1.5">>
      [] size = "Medium" -> <<"px-4", "py-2">>
      [] size = "Large" -> <<"px-6", "py-3">>
      [] size = "XLarge" -> <<"px-8", "py-4">>

\* the background token documented for each variant on palette p
VariantBackground(p, variant) ==
    CASE variant = "Primary" -> FirstToken(<<"bg-">> \o p.primary)
      [] variant = "Success" -> FirstToken(<<"bg-">> \o p.success)
      [] variant = "Warning" -> FirstToken(<<"bg-">> \o p.warning)
      [] variant = "Error" -> FirstToken(<<"bg-">> \o p.error)
      [] variant = "Secondary" -> FirstToken(<<"bg-">> \o p.surface)
      [] OTHER -> "bg-transparent"

\* C16: the output of ButtonStyles holds the base tokens inline-flex,
\* items-center and justify-center, the padding pair of the selected size as
\* neighbours, and the background token of the selected variant, which for
\* Primary, Success, Warning and Error is bg- followed by the palette slot.
C16_ButtonOutputHoldsFixedSubstrings ==
    Finalized("ButtonStyles")
    => LET ts == split_whitespace(out)
       IN  /\ {"inline-flex", "items-center", "justify-center"} \subseteq Range(ts)
           /\ \E i \in 1..(Len(ts) - 1) :
                  <<ts[i], ts[i + 1]>> = PaddingPair(builder.size)
           /\ VariantBackground(provider.palette, builder.variant) \in Range(ts)

C16_Witness ==
    /\ Finalized("ButtonStyles")
    /\ builder.variant = "Success"
    /\ builder.size = "Large"
    /\ provider.type = "themes::VibeColors"
    /\ "bg-green-500" \in Range(split_whitespace(out))

\* C27: the output of ButtonStyles and CardStyles is determined by the last
\* value given to each field and by the list of custom classes: a setter
\* stores what it is given in its own field and leaves every other field and
\* the custom classes as they were, so setters of different fields commute
\* and of several calls on one field only the last one counts; the terminal
\* call returns the String of these field values.
C27_LastValuePerFieldDecides ==
    /\ []((Returned /\ family = "ButtonStyles")
            => out = ButtonStyles_build(provider.palette, builder))
    /\ []((Returned /\ family = "CardStyles")
            => out = CardStyles_build(provider.palette, builder))
    /\ [][family = "ButtonStyles"
            => /\ \A x \in ButtonVariant :
                    ButtonSetVariant(x) => builder' = [builder EXCEPT !.variant = x]
               /\ \A x \in Size :
                    ButtonSetSize(x) => builder' = [builder EXCEPT !.size = x]
               /\ \A x \in ButtonState :
                    ButtonSetState(x) => builder' = [builder EXCEPT !.state = x]
               /\ ButtonFullWidth => builder' = [builder EXCEPT !.full_width = TRUE]
               /\ ButtonWithIcon => builder' = [builder EXCEPT !.with_icon = TRUE]]_vars
    /\ [][family = "CardStyles"
            => /\ \A x \in CardElevation :
                    CardSetElevation(x) => builder' = [builder EXCEPT !.elevation = x]
               /\ \A x \in CardSurface :
                    CardSetSurface(x) => builder' = [builder EXCEPT !.surface = x]
               /\ \A x \in CardSpacing :
                    CardSetSpacing(x) => builder' = [builder EXCEPT !.spacing = x]
               /\ \A x \in CardInteraction :
                    CardSetInteraction(x) => builder' = [builder EXCEPT !.interaction = x]
               /\ \A x \in BOOLEAN :
                    CardSelected(x) => builder' = [builder EXCEPT !.selected = x]]_vars

C27_Witness ==
    /\ Finalized("ButtonStyles")
    /\ builder.variant = "Link"
    /\ builder.size = "Large"
    /\ builder.custom_classes = <<>>
    /\ {"px-6", "hover:underline"} \subseteq Range(split_whitespace(out))

-----------------------------------------------------------------------------
(* Life cycle of a style builder                                           *)

\* the terminal methods declared with `&self`
BorrowingOps(f) ==
    CASE f = "TextStyles" -> {"classes"}
      [] f = "SelectionStyles" -> {"item_classes", "count_classes"}
      [] OTHER -> {}

\* the latest call was a terminal method declared with `self`
ConsumingCall == Returned /\ last.op \notin BorrowingOps(family)

-----------------------------------------------------------------------------
(* Properties of the string-keyed setters                                  *)

\* everything the terminal calls of a builder return
Output(f, p, b) ==
    CASE f = "ButtonStyles" -> <<ButtonStyles_classes(p, b), ButtonStyles_build(p, b)>>
      [] f = "CardStyles" -> <<CardStyles_classes(p, b)>>
      [] f = "StateStyles" -> <<StateStyles_classes(p, b)>>
      [] f = "SelectionStyles" ->
            <<SelectionStyles_container_classes(p, b), SelectionStyles_item_classes(p, b),
              SelectionStyles_count_classes(p, b)>>
      [] f = "TextStyles" -> <<TextStyles_classes(p, b)>>

\* the field a string-keyed setter is for
StrField ==
    [variant_str |-> "variant", size_str |-> "size", state_str |-> "state",
     elevation_str |-> "elevation", surface_str |-> "surface", spacing_str |-> "spacing",
     interaction_str |-> "interaction", intent_str |-> "intent",
     prominence_str |-> "prominence", alignment_str |-> "alignment",
     loading_variant_str |-> "loading_variant", behavior_str |-> "behavior",
     display_str |-> "display", layout_str |-> "layout", hierarchy_str |-> "hierarchy",
     weight_str |-> "weight", color_str |-> "color"]

\* the step is a string-keyed setter called with a string it does not recognise
UnrecognisedStrStep == last'.op \in DOMAIN StrField /\ last'.arg \in Unrecognised

\* the builder before the step, after the typed setter for the default of the
\* field the step's setter is for
AfterTypedDefault ==
    [builder EXCEPT ![StrField[last'.op]] = New(family)[StrField[last'.op]]]

\* builders a and b of the family return the same from every terminal call
\* (equal builders do; the outputs are compared when the builders differ)
SameOutput(a, b) ==
    a = b \/ Output(family, provider.palette, a) = Output(family, provider.palette, b)

TextIgnoringSetters == {"size_str", "weight_str", "color_str", "alignment_str"}

\* C6 as stated: every string-keyed setter of ButtonStyles, CardStyles,
\* TextStyles, SelectionStyles and StateStyles, given an unrecognised string,
\* leaves a builder whose output is that of the typed setter for the field's
\* default, whatever the field held before.
C6_UnrecognisedStringGivesDefault ==
    [][UnrecognisedStrStep => SameOutput(builder', AfterTypedDefault)]_vars

\* C6 amended: that holds for the string-keyed setters of ButtonStyles,
\* CardStyles, SelectionStyles and StateStyles and for TextStyles::hierarchy_str;
\* size_str, weight_str, color_str and alignment_str of TextStyles leave the
\* output as it was before the call.
C6_UnrecognisedStringGivesDefaultExceptText ==
    [][UnrecognisedStrStep
        => IF family = "TextStyles" /\ last'.op \in TextIgnoringSetters
           THEN SameOutput(builder', builder)
           ELSE SameOutput(builder', AfterTypedDefault)]_vars

C6_Witness ==
    /\ family = "ButtonStyles" /\ phase = "configuring"
    /\ last.op = "variant_str" /\ last.arg = "invalid-value" /\ last.before = "Ghost"
    /\ builder.variant = "Primary"

\* C7: size_str, weight_str, color_str and alignment_str of TextStyles, given
\* a string they do not recognise, return the builder unchanged.
C7_TextIgnoresUnrecognisedStrings ==
    [][(family = "TextStyles" /\ UnrecognisedStrStep /\ last'.op \in TextIgnoringSetters)
        => /\ builder' = builder
           /\ TextStyles_classes(provider.palette, builder')
                = TextStyles_classes(provider.palette, builder)]_vars

C7_Witness ==
    /\ family = "TextStyles" /\ phase = "configuring"
    /\ last.op = "size_str" /\ last.arg = "invalid-value" /\ last.before = "XL"
    /\ builder.size = "XL"

-----------------------------------------------------------------------------
(* patterns/interactions.rs: InteractiveElement                            *)

InteractiveState == {"Default", "Hover", "Active", "Focused", "Disabled", "Loading"}
InteractionIntensity == {"Gentle", "Standard", "Prominent"}

InteractiveElement_new ==
    [state |-> "Default", is_hoverable |-> FALSE, is_focusable |-> FALSE,
     is_pressable |-> FALSE, interaction_intensity |-> "Standard",
     custom_classes |-> <<>>]

InteractiveElement_hoverable(e) == [e EXCEPT !.is_hoverable = TRUE]
InteractiveElement_focusable(e) == [e EXCEPT !.is_focusable = TRUE]
InteractiveElement_pressable(e) == [e EXCEPT !.is_pressable = TRUE]

\* gentle_interaction, standard_interaction, prominent_interaction
InteractiveElement_interaction(e, intensity) ==
    [e EXCEPT !.interaction_intensity = intensity]

\* state, and hover, active, focused, disabled, loading
InteractiveElement_state(e, state) == [e EXCEPT !.state = state]

InteractiveElement_custom(e, class) == [e EXCEPT !.custom_classes = Append(@, class)]

\* resolve_color(Color::Primary).replace("bg-", "").replace("-500", "-300")
primary_ring_color(p) ==
    replace(replace(resolve_color(p, "Primary"), "bg-", ""), "-500", "-300")

InteractiveElement_classes(p, e) ==
    LET base == PushIf(e.is_hoverable \/ e.is_focusable \/ e.is_pressable,
                       Words(<<"transition-all", "duration-200", "ease-in-out">>))
        cursor ==
            CASE e.state = "Disabled" -> << <<"cursor-not-allowed">> >>
              [] e.state = "Loading" -> << <<"cursor-wait">> >>
              [] OTHER -> PushIf(e.is_hoverable \/ e.is_pressable, <<"cursor-pointer">>)
        hover_classes ==
            CASE e.interaction_intensity = "Gentle" ->
                    Words(<<"hover:scale-101", "hover:shadow-sm">>)
              [] e.interaction_intensity = "Standard" ->
                    Words(<<"hover:scale-105", "hover:shadow-md">>)
              [] e.interaction_intensity = "Prominent" ->
                    Words(<<"hover:scale-110", "hover:shadow-lg">>)
        active_classes ==
            CASE e.interaction_intensity = "Gentle" -> <<"active:scale-100">>
              [] e.interaction_intensity = "Standard" -> <<"active:scale-95">>
              [] e.interaction_intensity = "Prominent" -> <<"active:scale-95">>
        focus ==
            IF e.is_focusable
            THEN << Words(<<"focus:outline-none", "focus:ring-2", "focus:ring-offset-2">>),
                    <<"focus:ring-">> \o primary_ring_color(p) >>
            ELSE <<>>
        state ==
            CASE e.state = "Focused" /\ e.is_focusable ->
                    << Words(<<"ring-2", "ring-offset-2">>),
                       <<"ring-">> \o primary_ring_color(p) >>
              [] e.state = "Disabled" -> << Words(<<"opacity-50", "pointer-events-none">>) >>
              [] e.state = "Loading" -> << <<"opacity-75">> >>
              [] OTHER -> <<>>
        classes ==
            base \o cursor
                \o PushIf(e.is_hoverable /\ e.state # "Disabled", hover_classes)
                \o PushIf(e.is_pressable /\ e.state # "Disabled", active_classes)
                \o focus \o state \o e.custom_classes
    IN  join(classes, <<SP>>)

-----------------------------------------------------------------------------
(* patterns/focus.rs: FocusManagement                                      *)

FocusBehavior == {"Standard", "Subtle", "Prominent", "None", "Custom"}
KeyboardPattern == {"Button", "Link", "MenuItem", "Tab", "Toggle", "Expandable"}
ScreenReaderPattern == {"Button", "Link", "MenuItem", "Tab", "ToggleButton", "Expandable"}

FocusManagement_new ==
    [focus_behavior |-> "Standard", keyboard_pattern |-> None,
     screen_reader_pattern |-> None, is_focusable |-> TRUE, tab_index |-> None,
     custom_classes |-> <<>>]

FocusManagement_focus_behavior(m, behavior) == [m EXCEPT !.focus_behavior = behavior]

FocusManagement_button(m) ==
    [m EXCEPT !.keyboard_pattern = "Button", !.screen_reader_pattern = "Button",
              !.focus_behavior = "Standard"]

FocusManagement_link(m) ==
    [m EXCEPT !.keyboard_pattern = "Link", !.screen_reader_pattern = "Link",
              !.focus_behavior = "Standard"]

FocusManagement_menu_item(m) ==
    [m EXCEPT !.keyboard_pattern = "MenuItem", !.screen_reader_pattern = "MenuItem",
              !.focus_behavior = "Subtle"]

FocusManagement_tab(m) ==
    [m EXCEPT !.keyboard_pattern = "Tab", !.screen_reader_pattern = "Tab",
              !.focus_behavior = "Standard"]

FocusManagement_toggle(m) ==
    [m EXCEPT !.keyboard_pattern = "Toggle", !.screen_reader_pattern = "ToggleButton",
              !.focus_behavior = "Standard"]

FocusManagement_classes(p, m) ==
    LET focus_ring ==
            CASE m.focus_behavior = "Standard" ->
                    Words(<<"focus:ring-2", "focus:ring-offset-2">>)
                        \o <<SP, "focus:ring-">> \o primary_ring_color(p)
              [] m.focus_behavior = "Subtle" ->
                    Words(<<"focus:ring-1", "focus:ring-offset-1">>)
                        \o <<SP, "focus:ring-">>
                        \o replace(resolve_color(p, "Border"), "border-", "")
              [] m.focus_behavior = "Prominent" ->
                    Words(<<"focus:ring-4", "focus:ring-offset-2">>)
                        \o <<SP, "focus:ring-">> \o primary_ring_color(p)
              [] m.focus_behavior = "None" -> <<"focus:ring-0">>
              [] m.focus_behavior = "Custom" -> <<>>
        classes ==
            (IF m.is_focusable
             THEN << <<"focus:outline-none">> >> \o PushIf(~is_empty(focus_ring), focus_ring)
             ELSE <<>>)
                \o m.custom_classes
    IN  join(classes, <<SP>>)

-----------------------------------------------------------------------------
(* patterns/actions.rs: ActionSemantics                                    *)

ActionIntent == {"Primary", "Secondary", "Constructive", "Destructive", "Navigation",
                 "Informational"}
ActionHierarchy == {"Hero", "Primary", "Secondary", "Tertiary", "Minimal"}
ActionContext == {"Standalone", "Form", "Navigation", "Inline", "Toolbar", "Floating"}

ActionSemantics_new ==
    [intent |-> "Secondary", hierarchy |-> "Secondary", context |-> "Standalone",
     is_urgent |-> FALSE, custom_classes |-> <<>>]

ActionSemantics_hierarchy(a, hierarchy) == [a EXCEPT !.hierarchy = hierarchy]
ActionSemantics_context(a, context) == [a EXCEPT !.context = context]
ActionSemantics_urgent(a) == [a EXCEPT !.is_urgent = TRUE]
ActionSemantics_primary(a) == [a EXCEPT !.intent = "Primary", !.hierarchy = "Primary"]
ActionSemantics_secondary(a) == [a EXCEPT !.intent = "Secondary", !.hierarchy = "Secondary"]
ActionSemantics_destructive(a) == [a EXCEPT !.intent = "Destructive"]
ActionSemantics_navigation(a) == [a EXCEPT !.intent = "Navigation", !.context = "Navigation"]

ActionSemantics_get_intent_colors(p, a) ==
    CASE a.intent = "Primary" ->
            bg_class(p, "Primary") \o <<SP>> \o text_class(p, "TextInverse")
                \o <<SP, "hover:">> \o bg_class(p, "InteractiveHover")
      [] a.intent = "Secondary" ->
            bg_class(p, "Surface") \o <<SP>> \o text_class(p, "TextPrimary")
                \o <<SP>> \o border_class(p, "Border") \o <<SP, "border">>
      [] a.intent = "Constructive" ->
            bg_class(p, "Success") \o <<SP>> \o text_class(p, "TextInverse")
                \o <<SP, "hover:bg-green-600">>
      [] a.intent = "Destructive" ->
            bg_class(p, "Error") \o <<SP>> \o text_class(p, "TextInverse")
                \o <<SP, "hover:bg-red-600">>
      [] a.intent = "Navigation" ->
            <<"bg-transparent", SP>> \o text_class(p, "TextPrimary")
                \o <<SP, "hover:">> \o bg_class(p, "Background")
      [] a.intent = "Informational" ->
            <<"bg-transparent", SP>> \o text_class(p, "TextSecondary")
                \o <<SP, "hover:underline">>

ActionSemantics_get_hierarchy_weight(a) ==
    CASE a.hierarchy = "Hero" ->
            Words(<<"text-xl", "font-bold", "px-8", "py-4", "rounded-lg", "shadow-lg">>)
      [] a.hierarchy = "Primary" ->
            Words(<<"text-base", "font-semibold", "px-6", "py-3", "rounded-md", "shadow-md">>)
      [] a.hierarchy = "Secondary" ->
            Words(<<"text-sm", "font-medium", "px-4", "py-2", "rounded-md", "shadow-sm">>)
      [] a.hierarchy = "Tertiary" ->
            Words(<<"text-sm", "font-normal", "px-3", "py-1.5", "rounded">>)
      [] a.hierarchy = "Minimal" ->
            Words(<<"text-xs", "font-normal", "px-2", "py-1", "rounded">>)

ActionSemantics_get_context_adjustments(a) ==
    CASE a.context = "Standalone" -> <<>>
      [] a.context = "Form" -> <<"min-w-24">>
      [] a.context = "Navigation" -> Words(<<"w-full", "justify-start">>)
      [] a.context = "Inline" -> Words(<<"inline", "underline-offset-2">>)
      [] a.context = "Toolbar" -> Words(<<"h-8", "px-2", "text-xs">>)
      [] a.context = "Floating" -> Words(<<"rounded-full", "w-14", "h-14", "shadow-xl">>)

ActionSemantics_classes(p, a) ==
    LET context_classes == ActionSemantics_get_context_adjustments(a)
        classes ==
            << ActionSemantics_get_intent_colors(p, a),
               ActionSemantics_get_hierarchy_weight(a) >>
                \o PushIf(~is_empty(context_classes), context_classes)
                \o PushIf(a.is_urgent, <<"animate-pulse">>)
                \o a.custom_classes
    IN  join(classes, <<SP>>)

-----------------------------------------------------------------------------
(* patterns/button.rs: ButtonPattern                                       *)

\* how far from its constructor value a CardPattern is configured: one
\* interaction setter alone changes three of its fields
MaxCardChanged == 3

\* the fields of pattern b that differ from b0, a sub-pattern counted as one
\* field, custom entries counted one each
PatternChanged(b, b0) == Changed(b, b0) + Len(b.interactive_element.custom_classes)

\* a setter call on a pattern
PatternChain(nb, new) ==
    /\ PatternChanged(nb, new)
            <= (IF family = "CardPattern" THEN MaxCardChanged ELSE MaxChanged)
    /\ builder' = nb
    /\ last' = NoCall
    /\ out' = <<>>
    /\ UNCHANGED <<provider, family, phase>>

ButtonPattern_new ==
    [disabled |-> FALSE, loading |-> FALSE, selected |-> FALSE,
     action_semantics |->
        ActionSemantics_context(ActionSemantics_secondary(ActionSemantics_new),
                                "Standalone"),
     interactive_element |->
        InteractiveElement_interaction(
            InteractiveElement_pressable(InteractiveElement_focusable(
                InteractiveElement_hoverable(InteractiveElement_new))),
            "Standard"),
     focus_management |-> FocusManagement_button(FocusManagement_new),
     custom_classes |-> <<>>]

\* .join(" ").split_whitespace().collect(), then dedup(), join(" "):
\* the tail of the patterns
unique(all_classes) ==
    join(AsStrings(dedup(split_whitespace(join(all_classes, <<SP>>)))), <<SP>>)

ButtonPattern_classes(p, b) ==
    LET action_classes == ActionSemantics_classes(p, b.action_semantics)
        interactive_classes == InteractiveElement_classes(p, b.interactive_element)
        focus_classes == FocusManagement_classes(p, b.focus_management)
        all_classes ==
            PushIf(~is_empty(action_classes), action_classes)
                \o PushIf(~is_empty(interactive_classes), interactive_classes)
                \o PushIf(~is_empty(focus_classes), focus_classes)
                \o PushIf(b.selected, <<"bg-opacity-80">>)
                \o b.custom_classes
    IN  unique(all_classes)

\* primary_action, secondary_action, destructive_action, navigation_action
ButtonPatternSetAction(x) ==
    /\ Configuring("ButtonPattern")
    /\ PatternChain(
          [builder EXCEPT !.action_semantics =
              CASE x = "primary" -> ActionSemantics_primary(@)
                [] x = "secondary" -> ActionSemantics_secondary(@)
                [] x = "destructive" -> ActionSemantics_destructive(@)
                [] x = "navigation" -> ActionSemantics_navigation(@)],
          ButtonPattern_new)

\* hero_prominence, primary_prominence, standard_prominence, tertiary_prominence
ButtonPatternSetProminence(x) ==
    /\ Configuring("ButtonPattern")
    /\ PatternChain([builder EXCEPT !.action_semantics = ActionSemantics_hierarchy(@, x)],
                    ButtonPattern_new)

\* inline_context, form_context, toolbar_context
ButtonPatternSetContext(x) ==
    /\ Configuring("ButtonPattern")
    /\ PatternChain([builder EXCEPT !.action_semantics = ActionSemantics_context(@, x)],
                    ButtonPattern_new)

\* gentle_interaction, standard_interaction, prominent_interaction
ButtonPatternSetInteraction(x) ==
    /\ Configuring("ButtonPattern")
    /\ PatternChain(
          [builder EXCEPT !.interactive_element = InteractiveElement_interaction(@, x)],
          ButtonPattern_new)

ButtonPatternCustomInteraction(classes) ==
    /\ Configuring("ButtonPattern")
    /\ PatternChain(
          [builder EXCEPT !.interactive_element = InteractiveElement_custom(@, classes)],
          ButtonPattern_new)

\* menu_item_focus, link_focus, toggle_focus
ButtonPatternSetFocus(x) ==
    /\ Configuring("ButtonPattern")
    /\ PatternChain(
          [builder EXCEPT !.focus_management =
              CASE x = "menu_item" -> FocusManagement_menu_item(@)
                [] x = "link" -> FocusManagement_link(@)
                [] x = "toggle" -> FocusManagement_toggle(@)],
          ButtonPattern_new)

\* subtle_focus, prominent_focus
ButtonPatternSetFocusBehavior(x) ==
    /\ Configuring("ButtonPattern")
    /\ PatternChain(
          [builder EXCEPT !.focus_management = FocusManagement_focus_behavior(@, x)],
          ButtonPattern_new)

ButtonPatternDisabled(disabled) ==
    /\ Configuring("ButtonPattern")
    /\ PatternChain(
          [builder EXCEPT !.disabled = disabled,
                          !.interactive_element =
                              IF disabled THEN InteractiveElement_state(@, "Disabled")
                              ELSE @],
          ButtonPattern_new)

ButtonPatternLoading(loading) ==
    /\ Configuring("ButtonPattern")
    /\ PatternChain(
          [builder EXCEPT !.loading = loading,
                          !.interactive_element =
                              IF loading THEN InteractiveElement_state(@, "Loading")
                              ELSE @],
          ButtonPattern_new)

ButtonPatternSelected(selected) ==
    /\ Configuring("ButtonPattern")
    /\ PatternChain([builder EXCEPT !.selected = selected], ButtonPattern_new)

\* hover, active, focused
ButtonPatternSetState(x) ==
    /\ Configuring("ButtonPattern")
    /\ PatternChain(
          [builder EXCEPT !.interactive_element = InteractiveElement_state(@, x)],
          ButtonPattern_new)

ButtonPatternCustom(classes) ==
    /\ Configuring("ButtonPattern")
    /\ PatternChain([builder EXCEPT !.custom_classes = Append(@, classes)],
                    ButtonPattern_new)

ButtonPatternUrgent ==
    /\ Configuring("ButtonPattern")
    /\ PatternChain([builder EXCEPT !.action_semantics = ActionSemantics_urgent(@)],
                    ButtonPattern_new)

ButtonPatternClasses ==
    /\ Configuring("ButtonPattern")
    /\ Finish(ButtonPattern_classes(provider.palette, builder))
    /\ last' = Call("classes", "")

\* FocusManagement::data_attributes: (name, value) pairs
FocusManagement_data_attributes(m) ==
    LET role ==
            CASE m.screen_reader_pattern = "Button" -> "button"
              [] m.screen_reader_pattern = "Link" -> "link"
              [] m.screen_reader_pattern = "MenuItem" -> "menuitem"
              [] m.screen_reader_pattern = "Tab" -> "tab"
              [] m.screen_reader_pattern = "ToggleButton" -> "button"
              [] m.screen_reader_pattern = "Expandable" -> "button"
              [] OTHER -> ""
    IN  (IF m.tab_index # None THEN << <<"tabindex", ToString(m.tab_index)>> >>
         ELSE IF m.is_focusable THEN << <<"tabindex", "0">> >>
         ELSE <<>>)
        \o (IF m.screen_reader_pattern # None THEN << <<"role", role>> >> ELSE <<>>)
        \o (CASE m.screen_reader_pattern = "ToggleButton" -> << <<"aria-pressed", "false">> >>
              [] m.screen_reader_pattern = "Expandable" -> << <<"aria-expanded", "false">> >>
              [] OTHER -> <<>>)

\* accessibility attributes that leave the disabled flag out
ButtonPattern_accessibility_attributes_focus_only(b) ==
    FocusManagement_data_attributes(b.focus_management)

\* ButtonPattern::accessibility_attributes
ButtonPattern_accessibility_attributes(b) ==
    FocusManagement_data_attributes(b.focus_management)
        \o (IF b.disabled THEN << <<"aria-disabled", "true">> >> ELSE <<>>)
        \o (IF b.loading THEN << <<"aria-busy", "true">> >> ELSE <<>>)
        \o (IF b.selected THEN << <<"aria-pressed", "true">> >> ELSE <<>>)

\* accessibility_attributes(&self): the pattern stays usable
ButtonPatternAccessibilityAttributes ==
    /\ Configuring("ButtonPattern")
    /\ Borrow(ButtonPattern_accessibility_attributes(builder))
    /\ last' = Call("accessibility_attributes", "")

ButtonPatternSetters ==
    \/ \E x \in {"primary", "secondary", "destructive", "navigation"} :
            ButtonPatternSetAction(x)
    \/ \E x \in {"Hero", "Primary", "Secondary", "Tertiary"} : ButtonPatternSetProminence(x)
    \/ \E x \in {"Inline", "Form", "Toolbar"} : ButtonPatternSetContext(x)
    \/ \E x \in InteractionIntensity : ButtonPatternSetInteraction(x)
    \/ \E x \in {"menu_item", "link", "toggle"} : ButtonPatternSetFocus(x)
    \/ \E x \in {"Subtle", "Prominent"} : ButtonPatternSetFocusBehavior(x)
    \/ \E x \in BOOLEAN : ButtonPatternDisabled(x)
    \/ \E x \in BOOLEAN : ButtonPatternLoading(x)
    \/ \E x \in BOOLEAN : ButtonPatternSelected(x)
    \/ \E x \in {"Hover", "Active", "Focused"} : ButtonPatternSetState(x)
    \/ ButtonPatternUrgent

ButtonPatternCustoms ==
    \/ \E c \in CustomInputs("ButtonPattern") : ButtonPatternCustomInteraction(c)
    \/ \E c \in CustomInputs("ButtonPattern") : ButtonPatternCustom(c)

-----------------------------------------------------------------------------
(* patterns/card.rs: CardPattern                                           *)

CardPattern_new ==
    [elevation |-> "Subtle", surface |-> "Standard", spacing |-> "Standard",
     interaction |-> "Static", selected |-> FALSE,
     interactive_element |-> InteractiveElement_new,
     focus_management |-> FocusManagement_new,
     custom_classes |-> <<>>]

CardPattern_get_surface_classes(p, b) ==
    CASE b.surface = "Standard" ->
            bg_class(p, "Surface") \o <<SP>> \o text_class(p, "TextPrimary")
                \o <<SP>> \o border_class(p, "Border")
      [] b.surface = "Elevated" ->
            bg_class(p, "Background") \o <<SP>> \o text_class(p, "TextPrimary")
                \o <<SP>> \o border_class(p, "Border")
      [] b.surface = "Branded" ->
            Words(<<"bg-gradient-to-br", "from-water-navy-900/80",
                    "to-water-blue-900/80", "border-white/10", "text-white">>)
      [] b.surface = "Glass" ->
            Words(<<"bg-white/10", "backdrop-blur-md", "border-white/20", "text-white">>)
      [] b.surface = "Dark" -> Words(<<"bg-gray-900", "border-gray-700", "text-white">>)
      [] b.surface = "Transparent" -> Words(<<"bg-transparent", "border-transparent">>)

CardPattern_classes(p, b) ==
    LET elevation_classes ==
            CASE b.elevation = "Flat" -> <<"shadow-none">>
              [] b.elevation = "Subtle" -> <<"shadow-sm">>
              [] b.elevation = "Raised" -> <<"shadow-md">>
              [] b.elevation = "Floating" -> <<"shadow-lg">>
              [] b.elevation = "Modal" -> <<"shadow-2xl">>
        surface_classes == CardPattern_get_surface_classes(p, b)
        spacing_classes ==
            CASE b.spacing = "None" -> <<"p-0">>
              [] b.spacing = "Compact" -> <<"p-3">>
              [] b.spacing = "Standard" -> <<"p-5">>
              [] b.spacing = "Comfortable" -> <<"p-6">>
              [] b.spacing = "Spacious" -> <<"p-8">>
        interactive_classes == InteractiveElement_classes(p, b.interactive_element)
        focus_classes == FocusManagement_classes(p, b.focus_management)
        selection ==
            IF b.selected
            THEN << Words(<<"ring-2", "ring-offset-2">>),
                    <<"ring-">> \o primary_ring_color(p) >>
            ELSE <<>>
        hover_elevation ==
            IF b.interaction \in {"Hoverable", "Clickable"}
            THEN CASE b.elevation = "Subtle" -> << <<"hover:shadow-md">> >>
                   [] b.elevation = "Raised" -> << <<"hover:shadow-lg">> >>
                   [] b.elevation = "Floating" -> << <<"hover:shadow-xl">> >>
                   [] OTHER -> <<>>
            ELSE <<>>
        all_classes ==
            << Words(<<"rounded-lg", "border", "transition-all", "duration-300">>),
               elevation_classes >>
                \o PushIf(~is_empty(surface_classes), surface_classes)
                \o <<spacing_classes>>
                \o PushIf(~is_empty(interactive_classes), interactive_classes)
                \o PushIf(~is_empty(focus_classes), focus_classes)
                \o selection \o hover_elevation \o b.custom_classes
    IN  unique(all_classes)

\* flat_elevation .. modal_elevation
CardPatternSetElevation(x) ==
    /\ Configuring("CardPattern")
    /\ PatternChain([builder EXCEPT !.elevation = x], CardPattern_new)

\* standard_surface .. transparent_surface
CardPatternSetSurface(x) ==
    /\ Configuring("CardPattern")
    /\ PatternChain([builder EXCEPT !.surface = x], CardPattern_new)

\* no_spacing .. spacious_spacing
CardPatternSetSpacing(x) ==
    /\ Configuring("CardPattern")
    /\ PatternChain([builder EXCEPT !.spacing = x], CardPattern_new)

\* static_interaction, hoverable_interaction, clickable_interaction,
\* selectable_interaction, draggable_interaction
CardPatternSetInteraction(x) ==
    /\ Configuring("CardPattern")
    /\ PatternChain(
          [builder EXCEPT
              !.interaction = x,
              !.interactive_element =
                  CASE x = "Static" -> InteractiveElement_new
                    [] x = "Hoverable" ->
                          InteractiveElement_interaction(
                              InteractiveElement_hoverable(InteractiveElement_new),
                              "Gentle")
                    [] x = "Clickable" ->
                          InteractiveElement_interaction(
                              InteractiveElement_pressable(InteractiveElement_focusable(
                                  InteractiveElement_hoverable(InteractiveElement_new))),
                              "Standard")
                    [] x = "Selectable" ->
                          InteractiveElement_interaction(
                              InteractiveElement_pressable(InteractiveElement_focusable(
                                  InteractiveElement_hoverable(InteractiveElement_new))),
                              "Gentle")
                    [] x = "Draggable" ->
                          InteractiveElement_interaction(
                              InteractiveElement_focusable(
                                  InteractiveElement_hoverable(InteractiveElement_new)),
                              "Standard"),
              !.focus_management =
                  CASE x = "Clickable" -> FocusManagement_button(@)
                    [] x = "Selectable" -> FocusManagement_toggle(@)
                    [] OTHER -> @],
          CardPattern_new)

CardPatternSelected(selected) ==
    /\ Configuring("CardPattern")
    /\ PatternChain([builder EXCEPT !.selected = selected], CardPattern_new)

\* hover, active, focused
CardPatternSetState(x) ==
    /\ Configuring("CardPattern")
    /\ PatternChain(
          [builder EXCEPT !.interactive_element = InteractiveElement_state(@, x)],
          CardPattern_new)

CardPatternCustom(classes) ==
    /\ Configuring("CardPattern")
    /\ PatternChain([builder EXCEPT !.custom_classes = Append(@, classes)],
                    CardPattern_new)

CardPatternClasses ==
    /\ Configuring("CardPattern")
    /\ Finish(CardPattern_classes(provider.palette, builder))
    /\ last' = Call("classes", "")

CardPatternSetters ==
    \/ \E x \in CardElevation : CardPatternSetElevation(x)
    \/ \E x \in CardSurface : CardPatternSetSurface(x)
    \/ \E x \in CardSpacing : CardPatternSetSpacing(x)
    \/ \E x \in CardInteraction : CardPatternSetInteraction(x)
    \/ \E x \in BOOLEAN : CardPatternSelected(x)
    \/ \E x \in {"Hover", "Active", "Focused"} : CardPatternSetState(x)

-----------------------------------------------------------------------------
(* The patterns driven through their setters, custom classes and classes() *)

\* the providers the patterns are constructed with: the default theme and a
\* palette whose primary slot carries a bg- prefix
PatternProviders ==
    {NewProvider("themes::VibeColors"), OverriddenProvider("core::VibeColors", Overrides[3])}

PatternFamilies == {"ButtonPattern", "CardPattern"}

PatternNew(f) ==
    CASE f = "ButtonPattern" -> ButtonPattern_new
      [] f = "CardPattern" -> CardPattern_new

PatternInit ==
    /\ provider \in PatternProviders
    /\ family \in PatternFamilies
    /\ builder = PatternNew(family)
    /\ phase = "configuring"
    /\ out = <<>>
    /\ last = NoCall

PatternNext ==
    \/ ButtonPatternSetters
    \/ ButtonPatternCustoms
    \/ ButtonPatternClasses
    \/ CardPatternSetters
    \/ \E c \in CustomInputs("CardPattern") : CardPatternCustom(c)
    \/ CardPatternClasses

SpecPattern == PatternInit /\ [][PatternNext]_vars

\* ButtonPattern::semantic_info
ButtonPattern_semantic_info(b) ==
    [action_intent |-> b.action_semantics.intent,
     is_primary |-> b.action_semantics.intent = "Primary",
     is_destructive |-> b.action_semantics.intent = "Destructive",
     is_disabled |-> b.disabled,
     is_loading |-> b.loading,
     is_selected |-> b.selected]

\* the tokens InteractiveElement::classes emits for the Disabled state
DisabledStyling == {"cursor-not-allowed", "opacity-50", "pointer-events-none"}

\* C23: for a ButtonPattern after any sequence of setters, classes() holds
\* the disabled styling (cursor-not-allowed, opacity-50, pointer-events-none)
\* if and only if semantic_info().is_disabled is true.
C23_DisabledStylingMatchesSemanticInfo ==
    (Finalized("ButtonPattern") /\ last.op = "classes")
    => (DisabledStyling \subseteq Range(split_whitespace(out))
          <=> ButtonPattern_semantic_info(builder).is_disabled)

\* CardPattern::accessibility_attributes
CardPattern_accessibility_attributes(b) ==
    FocusManagement_data_attributes(b.focus_management)
        \o (IF b.selected THEN << <<"aria-selected", "true">> >> ELSE <<>>)
        \o (CASE b.interaction = "Clickable" -> << <<"role", "button">> >>
              [] b.interaction = "Selectable" -> << <<"role", "option">> >>
              [] OTHER -> <<>>)

\* accessibility_attributes(&self): the pattern stays usable
CardPatternAccessibilityAttributes ==
    /\ Configuring("CardPattern")
    /\ Borrow(CardPattern_accessibility_attributes(builder))
    /\ last' = Call("accessibility_attributes", "")

\* a pattern and its accessibility attributes: the attributes do not read
\* the colour provider, so one provider is enough
AttributesInit ==
    /\ provider = NewProvider("themes::VibeColors")
    /\ family \in PatternFamilies
    /\ builder = PatternNew(family)
    /\ phase = "configuring"
    /\ out = <<>>
    /\ last = NoCall

AttributesNext ==
    \/ ButtonPatternSetters
    \/ ButtonPatternAccessibilityAttributes
    \/ CardPatternSetters
    \/ CardPatternAccessibilityAttributes

SpecAttributes == AttributesInit /\ [][AttributesNext]_vars

\* the names of the (name, value) pairs of attrs, in order
AttributeNames(attrs) == [i \in DOMAIN attrs |-> attrs[i][1]]

\* C24: accessibility_attributes() of a ButtonPattern or a CardPattern holds
\* each attribute name at most once, whatever setters were called: never two
\* role entries, never aria-pressed with both false and true.
C24_AttributeNamesAreUnique ==
    (family \in PatternFamilies /\ last.op = "accessibility_attributes")
    => NoElementTwice(AttributeNames(out))

\* the card b as it would be had only its last interaction setter touched
\* the focus management
LastInteractionAlone(b) ==
    [b EXCEPT !.focus_management =
        CASE b.interaction = "Clickable" -> FocusManagement_button(FocusManagement_new)
          [] b.interaction = "Selectable" -> FocusManagement_toggle(FocusManagement_new)
          [] OTHER -> FocusManagement_new]

\* C25: classes() and accessibility_attributes() of a CardPattern depend
\* only on the last interaction setter and the last state setter: the
\* attributes are those of a card on which only the last interaction setter
\* was called (after static_interaction() no role is left over), and
\* focused() followed by clickable_interaction() gives the classes of
\* clickable_interaction() followed by focused().
C25_LastInteractionAndStateDecide ==
    /\ []((family = "CardPattern" /\ last.op = "accessibility_attributes")
            => out = CardPattern_accessibility_attributes(LastInteractionAlone(builder)))
    /\ [][(CardPatternSetInteraction("Clickable")
             /\ builder.interactive_element.state = "Focused")
            => CardPattern_classes(provider.palette, builder')
                 = CardPattern_classes(provider.palette,
                       [builder' EXCEPT !.interactive_element =
                                            InteractiveElement_state(@, "Focused")])]_vars

\* C19: accessibility_attributes() of a ButtonPattern holds the pair
\* (aria-disabled, true) exactly when the pattern is disabled, and disabled is
\* what the latest disabled(b) call passed, FALSE when there was none.
C19_AriaDisabledFollowsDisabledCall ==
    /\ []((family = "ButtonPattern" /\ last.op = "accessibility_attributes")
            => (<<"aria-disabled", "true">> \in Range(out) <=> builder.disabled))
    /\ [][family = "ButtonPattern"
            => /\ \A x \in BOOLEAN : ButtonPatternDisabled(x) => builder'.disabled = x
               /\ (~\E x \in BOOLEAN : ButtonPatternDisabled(x))
                    => builder'.disabled = builder.disabled]_vars

C19_Witness ==
    /\ family = "ButtonPattern"
    /\ last.op = "accessibility_attributes"
    /\ builder.disabled
    /\ builder.interactive_element.state = "Disabled"
    /\ <<"aria-disabled", "true">> \in Range(out)

\* C3: the output of ButtonPattern::classes() and CardPattern::classes()
\* holds no token twice.
C3_PatternsEmitEachTokenOnce ==
    (phase = "finalized" /\ family \in PatternFamilies) => NoDuplicateTokens(out)

-----------------------------------------------------------------------------
(* components/button.rs: Button, ButtonStyle                               *)

\* impl Default for ButtonStyle
ButtonStyle_default ==
    [variant |-> "Primary", size |-> "Medium", state |-> "Default",
     full_width |-> FALSE, with_icon |-> FALSE]

Button_new == ButtonStyle_default

Button_size_classes(style) ==
    CASE style.size = "XSmall" -> Words(<<"px-2", "py-1", "text-xs", "rounded">>)
      [] style.size = "Small" -> Words(<<"px-3", "py-1.5", "text-sm", "rounded">>)
      [] style.size = "Medium" -> Words(<<"px-4", "py-2", "text-sm", "rounded-md">>)
      [] style.size = "Large" -> Words(<<"px-6", "py-3", "text-base", "rounded-md">>)
      [] style.size = "XLarge" -> Words(<<"px-8", "py-4", "text-lg", "rounded-lg">>)

Button_variant_classes(p, style) ==
    CASE style.variant = "Primary" ->
            bg_class(p, "Primary") \o <<SP>> \o text_class(p, "TextInverse")
                \o <<SP, "hover:">> \o bg_class(p, "InteractiveHover")
      [] style.variant = "Secondary" ->
            bg_class(p, "Surface") \o <<SP>> \o text_class(p, "TextPrimary")
                \o <<SP>> \o border_class(p, "Border") \o <<SP, "border">>
      [] style.variant = "Success" ->
            bg_class(p, "Success") \o <<SP>> \o text_class(p, "TextInverse")
                \o <<SP, "hover:bg-green-600">>
      [] style.variant = "Warning" ->
            bg_class(p, "Warning") \o <<SP>> \o text_class(p, "TextInverse")
                \o <<SP, "hover:bg-amber-600">>
      [] style.variant = "Error" ->
            bg_class(p, "Error") \o <<SP>> \o text_class(p, "TextInverse")
                \o <<SP, "hover:bg-red-600">>
      [] style.variant = "Ghost" ->
            <<"bg-transparent", SP>> \o text_class(p, "TextPrimary")
                \o <<SP, "hover:">> \o bg_class(p, "Background")
      [] style.variant = "Link" ->
            <<"bg-transparent", SP>> \o text_class(p, "Primary")
                \o <<SP, "hover:underline">>

\* state classes with those of Hover and Active exchanged
Button_state_classes_exchanged(style) ==
    CASE style.state = "Default" -> <<>>
      [] style.state = "Hover" -> <<"active:scale-95">>
      [] style.state = "Active" -> <<"hover:scale-105">>
      [] style.state = "Disabled" -> Words(<<"opacity-50", "cursor-not-allowed">>)
      [] style.state = "Loading" -> <<"cursor-wait">>

Button_state_classes(style) ==
    CASE style.state = "Default" -> <<>>
      [] style.state = "Hover" -> <<"hover:scale-105">>
      [] style.state = "Active" -> <<"active:scale-95">>
      [] style.state = "Disabled" -> Words(<<"opacity-50", "cursor-not-allowed">>)
      [] style.state = "Loading" -> <<"cursor-wait">>

\* format!("{} {} {} {} {} {}", ..).trim()
Button_base_classes(p, style) ==
    LET base == Words(<<"inline-flex", "items-center", "justify-center", "font-medium",
                        "transition-colors", "duration-200", "disabled:opacity-50",
                        "disabled:cursor-not-allowed">>)
        width_classes == IF style.full_width THEN <<"w-full">> ELSE <<>>
        icon_classes == IF style.with_icon THEN <<"space-x-2">> ELSE <<>>
    IN  trim(base \o <<SP>> \o Button_size_classes(style)
                \o <<SP>> \o Button_variant_classes(p, style)
                \o <<SP>> \o Button_state_classes(style)
                \o <<SP>> \o width_classes \o <<SP>> \o icon_classes)

\* ButtonBuilder::build for Button
Button_build(p, style) == Button_base_classes(p, style)

\* ButtonBuilder::variant, and Button::primary .. Button::link
ComponentButtonVariant(x) ==
    /\ Configuring("Button")
    /\ Chain([builder EXCEPT !.variant = x], Button_new)
    /\ last' = NoCall

ComponentButtonSize(x) ==
    /\ Configuring("Button")
    /\ Chain([builder EXCEPT !.size = x], Button_new)
    /\ last' = NoCall

ComponentButtonState(x) ==
    /\ Configuring("Button")
    /\ Chain([builder EXCEPT !.state = x], Button_new)
    /\ last' = NoCall

ComponentButtonFullWidth(full_width) ==
    /\ Configuring("Button")
    /\ Chain([builder EXCEPT !.full_width = full_width], Button_new)
    /\ last' = NoCall

ComponentButtonWithIcon(has_icon) ==
    /\ Configuring("Button")
    /\ Chain([builder EXCEPT !.with_icon = has_icon], Button_new)
    /\ last' = NoCall

ComponentButtonBuild ==
    /\ Configuring("Button")
    /\ Finish(Button_build(provider.palette, builder))
    /\ last' = Call("build", "")

ComponentButtonSetters ==
    \/ \E x \in ButtonVariant : ComponentButtonVariant(x)
    \/ \E x \in Size : ComponentButtonSize(x)
    \/ \E x \in ButtonState : ComponentButtonState(x)
    \/ \E x \in BOOLEAN : ComponentButtonFullWidth(x)
    \/ \E x \in BOOLEAN : ComponentButtonWithIcon(x)

-----------------------------------------------------------------------------
(* patterns/product.rs: ProductCardPattern; builders/product.rs:           *)
(* ProductBuilder, the fields its classes() reads                          *)

ProductDisplayPattern == {"ListItem", "Featured", "Tile", "Showcase", "Preview"}
ProductInteractionState == {"Default", "Focused", "Selected", "Loading", "Disabled"}
ProductAvailabilityState == {"Available", "OutOfStock", "Backorder", "Discontinued",
                             "Limited"}
ProductProminence == {"Subtle", "Standard", "Prominent", "Hero"}

ProductCardPattern_new ==
    [display |-> "ListItem", interaction_state |-> "Default",
     availability |-> "Available", prominence |-> "Standard"]

ProductBuilder_new ==
    [pattern |-> ProductCardPattern_new, custom_classes |-> <<>>]

ProductCardPattern_classes(p, pattern) ==
    LET display ==
            CASE pattern.display = "ListItem" -> <<"product-card--list">>
              [] pattern.display = "Featured" -> <<"product-card--featured">>
              [] pattern.display = "Tile" -> <<"product-card--tile">>
              [] pattern.display = "Showcase" -> <<"product-card--showcase">>
              [] pattern.display = "Preview" -> <<"product-card--preview">>
        interaction_state ==
            CASE pattern.interaction_state = "Default" -> <<>>
              [] pattern.interaction_state = "Focused" -> << <<"product-card--focused">> >>
              [] pattern.interaction_state = "Selected" -> << <<"product-card--selected">> >>
              [] pattern.interaction_state = "Loading" -> << <<"product-card--loading">> >>
              [] pattern.interaction_state = "Disabled" -> << <<"product-card--disabled">> >>
        availability ==
            CASE pattern.availability = "Available" -> <<>>
              [] pattern.availability = "OutOfStock" -> << <<"product-card--out-of-stock">> >>
              [] pattern.availability = "Backorder" -> << <<"product-card--backorder">> >>
              [] pattern.availability = "Discontinued" ->
                    << <<"product-card--discontinued">> >>
              [] pattern.availability = "Limited" -> << <<"product-card--limited">> >>
        prominence ==
            CASE pattern.prominence = "Subtle" -> << <<"product-card--subtle">> >>
              [] pattern.prominence = "Standard" -> <<>>
              [] pattern.prominence = "Prominent" -> << <<"product-card--prominent">> >>
              [] pattern.prominence = "Hero" -> << <<"product-card--hero">> >>
        color ==
            IF pattern.availability # "Available"
            THEN text_class(p, "InteractiveDisabled")
            ELSE CASE pattern.prominence = "Hero" -> bg_class(p, "Primary")
                   [] pattern.prominence = "Prominent" -> bg_class(p, "Secondary")
                   [] OTHER -> bg_class(p, "Surface")
        classes ==
            << <<"product-card">>, display >>
                \o interaction_state \o availability \o prominence \o <<color>>
    IN  join(classes, <<SP>>)

\* ProductBuilder::classes: the pattern's classes, then ' ' and the custom
\* classes joined when there are any
ProductBuilder_classes(p, b) ==
    ProductCardPattern_classes(p, b.pattern)
        \o (IF ~is_empty(b.custom_classes)
            THEN <<SP>> \o join(b.custom_classes, <<SP>>)
            ELSE <<>>)

\* how far a ProductBuilder is from its constructor value
ProductChanged(b) == Changed(b.pattern, ProductCardPattern_new) + Len(b.custom_classes)

ProductChain(nb) ==
    /\ ProductChanged(nb) <= MaxChanged
    /\ builder' = nb
    /\ last' = NoCall
    /\ out' = <<>>
    /\ UNCHANGED <<provider, family, phase>>

\* list_item, featured, tile, showcase, preview
ProductSetDisplay(x) ==
    /\ Configuring("ProductBuilder")
    /\ ProductChain([builder EXCEPT !.pattern.display = x])

\* focused, selected, loading, disabled
ProductSetInteractionState(x) ==
    /\ Configuring("ProductBuilder")
    /\ ProductChain([builder EXCEPT !.pattern.interaction_state = x])

\* available, out_of_stock, backorder, discontinued, limited
ProductSetAvailability(x) ==
    /\ Configuring("ProductBuilder")
    /\ ProductChain([builder EXCEPT !.pattern.availability = x])

\* subtle, standard, prominent, hero
ProductSetProminence(x) ==
    /\ Configuring("ProductBuilder")
    /\ ProductChain([builder EXCEPT !.pattern.prominence = x])

ProductCustomClass(class) ==
    /\ Configuring("ProductBuilder")
    /\ ProductChain([builder EXCEPT !.custom_classes = Append(@, class)])

ProductClasses ==
    /\ Configuring("ProductBuilder")
    /\ Finish(ProductBuilder_classes(provider.palette, builder))
    /\ last' = Call("classes", "")

ProductSetters ==
    \/ \E x \in ProductDisplayPattern : ProductSetDisplay(x)
    \/ \E x \in ProductInteractionState \ {"Default"} : ProductSetInteractionState(x)
    \/ \E x \in ProductAvailabilityState : ProductSetAvailability(x)
    \/ \E x \in ProductProminence : ProductSetProminence(x)

-----------------------------------------------------------------------------
(* The button component and the product builder driven to their terminal   *)
(* methods                                                                 *)

ComponentFamilies == {"Button", "ProductBuilder"}

ComponentNew(f) ==
    CASE f = "Button" -> Button_new
      [] f = "ProductBuilder" -> ProductBuilder_new

ComponentInit ==
    /\ provider \in StyleProviders
    /\ family \in ComponentFamilies
    /\ builder = ComponentNew(family)
    /\ phase = "configuring"
    /\ out = <<>>
    /\ last = NoCall

ComponentNext ==
    \/ ComponentButtonSetters
    \/ ComponentButtonBuild
    \/ ProductSetters
    \/ \E c \in CustomInputs("ProductBuilder") : ProductCustomClass(c)
    \/ ProductClasses

SpecComponent == ComponentInit /\ [][ComponentNext]_vars

\* C5: components::Button::build() and ProductBuilder::classes() return a
\* String with no leading, trailing or doubled spaces.
C5_RemainingTerminalsAreSingleSpaced ==
    (phase = "finalized" /\ family \in ComponentFamilies) => SingleSpaced(out)

-----------------------------------------------------------------------------
(* Properties of the CardStyles output                                     *)

\* a palette slot with a trailing -500 shade swapped for -300
ShadeSuffixSwapped(slot) ==
    IF slot # <<>> /\ slot[Len(slot)] = "-500"
    THEN SubSeq(slot, 1, Len(slot) - 1) \o <<"-300">>
    ELSE slot

\* a palette slot with every bg- taken out and then every -500 turned into -300
PrefixStrippedShadeSwapped(slot) ==
    LET bare == SelectSeq(slot, LAMBDA x : x # "bg-")
    IN  [i \in DOMAIN bare |-> IF bare[i] = "-500" THEN "-300" ELSE bare[i]]

\* the selection ring is in the output with the ring colour given, exactly
\* when the card is selected
RingRule(ring_slot) ==
    LET ts == Range(split_whitespace(out))
    IN  IF builder.selected
        THEN {"ring-2", "ring-offset-2", FirstToken(<<"ring-">> \o ring_slot)} \subseteq ts
        ELSE "ring-2" \notin ts

\* C17 as stated: a selected card has ring-2, ring-offset-2 and the ring
\* colour ring-<primary slot with its -500 suffix replaced by -300>; a card
\* that is not selected has no ring-2.
C17_SelectedCardHasPrimaryRing ==
    Finalized("CardStyles") => RingRule(ShadeSuffixSwapped(provider.palette.primary))

\* C17 amended: the ring colour is ring-<primary slot with every bg- removed
\* and then every -500 replaced by -300>; selected is what the latest
\* selected(b) call passed, FALSE when there was none.
C17_SelectedCardHasStrippedPrimaryRing ==
    /\ [](Finalized("CardStyles")
            => RingRule(PrefixStrippedShadeSwapped(provider.palette.primary)))
    /\ [][family = "CardStyles"
            => builder'.selected
                 = (IF last'.op = "selected" THEN last'.arg ELSE builder.selected)]_vars

C17_Witness ==
    /\ Finalized("CardStyles")
    /\ builder.selected
    /\ provider.palette.primary = <<"bg-", "brand", "-500">>
    /\ "ring-brand-300" \in Range(split_whitespace(out))


\* the hover shadow documented for each elevation
HoverShadow == [Subtle |-> "hover:shadow-md", Raised |-> "hover:shadow-lg",
                Floating |-> "hover:shadow-xl"]

\* C18: the CardStyles output holds hover:shadow-md, hover:shadow-lg or
\* hover:shadow-xl exactly when the interaction is Hoverable or Clickable and
\* the elevation is Subtle, Raised or Floating respectively; otherwise it
\* holds none of the three.
C18_HoverShadowFollowsElevation ==
    Finalized("CardStyles")
    => \A e \in DOMAIN HoverShadow :
          HoverShadow[e] \in Range(split_whitespace(out))
            <=> (builder.interaction \in {"Hoverable", "Clickable"} /\ builder.elevation = e)

C18_Witness ==
    /\ Finalized("CardStyles")
    /\ builder.interaction = "Clickable"
    /\ builder.elevation = "Raised"
    /\ "hover:shadow-lg" \in Range(split_whitespace(out))


-----------------------------------------------------------------------------
(* builders/product.rs: the action adders and badge adders of              *)
(* ProductBuilder, over the two lists of ProductCardPattern they touch     *)

ProductActionType ==
    {"AddToCart", "QuickView", "Compare", "Wishlist", "Share", "ViewDetails"}

\* the badge kinds that carry no data
ProductBadgeKinds == {"Sale", "New", "Featured", "BestSeller", "Limited", "OutOfStock"}

\* the texts given to custom_badge
BadgeTexts == {"Custom", "Hot"}

Badge(kind) == [kind |-> kind, text |-> ""]

CustomBadge(text) == [kind |-> "Custom", text |-> text]

\* ProductCardPattern::new, the actions and the badges it starts with
ProductCardPattern_lists_new == [actions |-> <<"AddToCart">>, badges |-> <<>>]

ProductBuilder_lists_new == [pattern |-> ProductCardPattern_lists_new]

\* Vec::contains
contains(s, x) == x \in Range(s)

\* add_to_cart_action, quick_view_action, compare_action, wishlist_action,
\* share_action, view_details_action: the list is cloned, the action pushed
\* unless the clone contains it, and the clone stored
ProductBuilder_add_action(b, a) ==
    LET actions == IF ~contains(b.pattern.actions, a)
                   THEN Append(b.pattern.actions, a)
                   ELSE b.pattern.actions
    IN  [b EXCEPT !.pattern.actions = actions]

\* sale_badge, new_badge, featured_badge, best_seller_badge, limited_badge,
\* out_of_stock_badge: as the action adders, on the badges
ProductBuilder_add_badge(b, kind) ==
    LET badges == IF ~contains(b.pattern.badges, Badge(kind))
                  THEN Append(b.pattern.badges, Badge(kind))
                  ELSE b.pattern.badges
    IN  [b EXCEPT !.pattern.badges = badges]

\* custom_badge(text): ProductBadgeType::Custom(text) is pushed, the list is
\* not searched first
ProductBuilder_custom_badge(b, text) ==
    [b EXCEPT !.pattern.badges = Append(b.pattern.badges, CustomBadge(text))]

\* the entries added to the two lists since the constructor
ProductListed(b) == (Len(b.pattern.actions) - 1) + Len(b.pattern.badges)

ProductListChain(nb, op, arg) ==
    /\ ProductListed(nb) <= MaxChanged
    /\ builder' = nb
    /\ last' = Call(op, arg)
    /\ out' = <<>>
    /\ UNCHANGED <<provider, family, phase>>

ProductAddAction(a) ==
    /\ Configuring("ProductBuilder")
    /\ ProductListChain(ProductBuilder_add_action(builder, a), "action", a)

ProductAddBadge(kind) ==
    /\ Configuring("ProductBuilder")
    /\ ProductListChain(ProductBuilder_add_badge(builder, kind), "badge", kind)

ProductCustomBadge(text) ==
    /\ Configuring("ProductBuilder")
    /\ ProductListChain(ProductBuilder_custom_badge(builder, text), "custom_badge", text)

ProductListInit ==
    /\ provider = NewProvider("themes::VibeColors")
    /\ family = "ProductBuilder"
    /\ builder = ProductBuilder_lists_new
    /\ phase = "configuring"
    /\ out = <<>>
    /\ last = NoCall

ProductListNext ==
    \/ \E a \in ProductActionType : ProductAddAction(a)
    \/ \E kind \in ProductBadgeKinds : ProductAddBadge(kind)
    \/ \E text \in BadgeTexts : ProductCustomBadge(text)

SpecProductLists == ProductListInit /\ [][ProductListNext]_vars

\* C20: after any sequence of ProductBuilder action adders and badge adders
\* neither the actions list nor the badges list of the pattern holds an
\* element twice, and an adder called with an action or badge the list
\* already holds leaves the list as it was.
C20_AddersKeepListsFreeOfDuplicates ==
    /\ [](family = "ProductBuilder"
            => /\ NoElementTwice(builder.pattern.actions)
               /\ NoElementTwice(builder.pattern.badges))
    /\ [][family = "ProductBuilder"
            => /\ (last'.op = "action" /\ contains(builder.pattern.actions, last'.arg))
                    => builder'.pattern.actions = builder.pattern.actions
               /\ (last'.op = "badge" /\ contains(builder.pattern.badges, Badge(last'.arg)))
                    => builder'.pattern.badges = builder.pattern.badges
               /\ (last'.op = "custom_badge"
                     /\ contains(builder.pattern.badges, CustomBadge(last'.arg)))
                    => builder'.pattern.badges = builder.pattern.badges]_vars


-----------------------------------------------------------------------------
(* The free functions that take the whole configuration as arguments       *)

\* a button_classes_from_strings that looks at disabled before loading
button_classes_from_strings_disabled_first(p, variant, size, disabled, loading, full_width) ==
    LET b1 == ButtonStyles_size_str(ButtonStyles_variant_str(ButtonStyles_new, variant), size)
        b2 == IF disabled THEN [b1 EXCEPT !.state = "Disabled"]
              ELSE IF loading THEN [b1 EXCEPT !.state = "Loading"]
              ELSE b1
        b3 == IF full_width THEN [b2 EXCEPT !.full_width = TRUE] ELSE b2
    IN  ButtonStyles_classes(p, b3)

\* builders/button.rs: button_classes_from_strings
button_classes_from_strings(p, variant, size, disabled, loading, full_width) ==
    LET b1 == ButtonStyles_size_str(ButtonStyles_variant_str(ButtonStyles_new, variant), size)
        b2 == IF loading THEN [b1 EXCEPT !.state = "Loading"]
              ELSE IF disabled THEN [b1 EXCEPT !.state = "Disabled"]
              ELSE b1
        b3 == IF full_width THEN [b2 EXCEPT !.full_width = TRUE] ELSE b2
    IN  ButtonStyles_classes(p, b3)

\* the argument lists the function is called with
ButtonArguments ==
    [variant : {"primary", "outline", "danger", "link", "invalid-value"},
     size : {"xs", "lg", "extra_large", ""},
     disabled : BOOLEAN, loading : BOOLEAN, full_width : BOOLEAN]

\* one call: builder holds the arguments, out the returned String
ButtonClassesFromStrings ==
    /\ Configuring("button_classes_from_strings")
    /\ Finish(button_classes_from_strings(provider.palette, builder.variant, builder.size,
                                          builder.disabled, builder.loading,
                                          builder.full_width))
    /\ last' = Call("button_classes_from_strings", "")

FunctionInit ==
    /\ provider \in StyleProviders
    /\ family = "button_classes_from_strings"
    /\ builder \in ButtonArguments
    /\ phase = "configuring"
    /\ out = <<>>
    /\ last = NoCall

FunctionNext == ButtonClassesFromStrings

SpecFunction == FunctionInit /\ [][FunctionNext]_vars

\* the ButtonStyles value the arguments a stand for: variant_str and size_str
\* applied, Loading when loading, Disabled when only disabled, full_width as given
ButtonStylesFor(a) ==
    [variant |-> ButtonStyles_variant_str(ButtonStyles_new, a.variant).variant,
     size |-> ButtonStyles_size_str(ButtonStyles_new, a.size).size,
     state |-> IF a.loading THEN "Loading" ELSE IF a.disabled THEN "Disabled" ELSE "Default",
     full_width |-> a.full_width,
     with_icon |-> FALSE,
     custom_classes |-> <<>>]

\* C21: button_classes_from_strings(p, v, s, disabled, loading, full_width)
\* returns what ButtonStyles::new(p).variant_str(v).size_str(s) returns with
\* state Loading when loading (also when disabled is set as well), Disabled
\* when only disabled, Default otherwise, and full_width() exactly when
\* full_width; cursor-wait is in the result if and only if loading.
C21_FromStringsEqualsBuilderChain ==
    Finalized("button_classes_from_strings")
    => /\ out = ButtonStyles_classes(provider.palette, ButtonStylesFor(builder))
       /\ "cursor-wait" \in Range(split_whitespace(out)) <=> builder.loading
       /\ "w-full" \in Range(split_whitespace(out)) <=> builder.full_width

C21_Witness ==
    /\ Finalized("button_classes_from_strings")
    /\ builder.loading /\ builder.disabled /\ builder.full_width
    /\ builder.variant = "danger"
    /\ "cursor-wait" \in Range(split_whitespace(out))
    /\ "cursor-not-allowed" \notin Range(split_whitespace(out))


-----------------------------------------------------------------------------
(* builders/interactive.rs: InteractiveBase, its pseudo-class sub-builders *)
(* and the InputBuilder and ButtonBuilder that wrap it                     *)

\* the Vecs of InteractiveBase, in the order build() reads them
InteractiveGroups == <<"base", "hover", "focus", "active", "disabled">>

InteractiveFamilies == {"InteractiveBase", "InputBuilder", "ButtonBuilder"}

\* InteractiveBase::new. `at` is the type of the value the chain holds: "base"
\* for the builder the chain started from, else the sub-builder entered last;
\* `calls` lists the class-adding calls made so far
InteractiveBase_new ==
    [at |-> "base", base_classes |-> <<>>, hover_classes |-> <<>>, focus_classes |-> <<>>,
     active_classes |-> <<>>, disabled_classes |-> <<>>, calls |-> <<>>]

\* the Strings passed as `classes: &str`
ClassArguments == { <<"underline">>, <<"opacity-50", SP, SP, "shadow-md">> }

\* classes.split_whitespace().map(|s| s.to_string())
to_strings(classes) == AsStrings(split_whitespace(classes))

\* what InteractiveBase::base, and the methods of InputBuilder and
\* ButtonBuilder that end in it, add to base_classes
BaseItems(p, op, arg) ==
    CASE op \in {"base", "base_classes"} -> to_strings(arg)
      [] op = "base_style" ->
            to_strings(Words(<<"w-full", "px-4", "py-3", "border", "rounded-md",
                               "transition-colors", "focus:outline-none">>))
      [] op = "standard_style" ->
            to_strings(Words(<<"w-full", "px-4", "py-3", "rounded-md", "transition-colors",
                               "focus:outline-none">>)
                       \o <<SP>> \o border_class(p, "Border")
                       \o <<SP>> \o bg_class(p, "Surface"))
      [] op = "primary" ->
            to_strings(Words(<<"inline-flex", "items-center", "justify-center", "px-4",
                               "py-2", "font-medium", "rounded-md", "transition-colors">>)
                       \o <<SP>> \o bg_class(p, "Primary")
                       \o <<SP>> \o text_class(p, "TextInverse"))
      [] op = "secondary" ->
            to_strings(Words(<<"inline-flex", "items-center", "justify-center", "px-4",
                               "py-2", "font-medium", "rounded-md", "transition-colors",
                               "border">>)
                       \o <<SP>> \o bg_class(p, "Surface")
                       \o <<SP>> \o text_class(p, "TextPrimary")
                       \o <<SP>> \o border_class(p, "Border"))
      [] op = "ghost" ->
            to_strings(Words(<<"inline-flex", "items-center", "justify-center", "px-4",
                               "py-2", "font-medium", "rounded-md", "transition-colors",
                               "bg-transparent">>)
                       \o <<SP>> \o text_class(p, "TextPrimary"))

\* what the methods of HoverBuilder push
HoverBuilder_items(p, op, arg) ==
    CASE op = "classes" -> to_strings(arg)
      [] op = "border_primary" -> << replace(border_class(p, "Primary"), "border-", "") >>
      [] op = "bg_primary" -> << replace(bg_class(p, "Primary"), "bg-", "") >>
      [] op = "darken" -> << replace(bg_class(p, "InteractiveHover"), "bg-", "") >>
      [] op = "scale_105" -> << <<"scale-105">> >>
      [] op = "shadow_md" -> << <<"shadow-md">> >>
      [] op = "shadow_lg" -> << <<"shadow-lg">> >>

\* what the methods of FocusBuilder push
FocusBuilder_items(p, op, arg) ==
    CASE op = "classes" -> to_strings(arg)
      [] op = "border_primary" -> << replace(border_class(p, "Primary"), "border-", "") >>
      [] op = "outline_none" -> << <<"outline-none">> >>
      [] op = "ring_primary" ->
            << <<"ring-2">>, <<"ring-offset-2">>,
               replace(replace(resolve_color(p, "Primary"), "bg-", "ring-"), "-500", "-300") >>

\* what the methods of ActiveBuilder push
ActiveBuilder_items(p, op, arg) ==
    CASE op = "classes" -> to_strings(arg)
      [] op = "scale_95" -> << <<"scale-95">> >>

\* what the methods of DisabledBuilder push
DisabledBuilder_items(p, op, arg) ==
    CASE op = "classes" -> to_strings(arg)
      [] op = "opacity_50" -> << <<"opacity-50">> >>
      [] op = "cursor_not_allowed" -> << <<"cursor-not-allowed">> >>

\* the items a call of method op made on the builder of group g adds
ItemsOf(p, g, op, arg) ==
    CASE g = "base" -> BaseItems(p, op, arg)
      [] g = "hover" -> HoverBuilder_items(p, op, arg)
      [] g = "focus" -> FocusBuilder_items(p, op, arg)
      [] g = "active" -> ActiveBuilder_items(p, op, arg)
      [] g = "disabled" -> DisabledBuilder_items(p, op, arg)

\* a FocusBuilder whose methods push onto hover_classes
FocusBuilder_push_into_hover(b, items) == [b EXCEPT !.hover_classes = @ \o items]

\* self.base.<group>_classes.push(..) / .extend(..) of each builder type
InteractiveBase_push(b, items) == [b EXCEPT !.base_classes = @ \o items]
HoverBuilder_push(b, items) == [b EXCEPT !.hover_classes = @ \o items]
FocusBuilder_push(b, items) == [b EXCEPT !.focus_classes = @ \o items]
ActiveBuilder_push(b, items) == [b EXCEPT !.active_classes = @ \o items]
DisabledBuilder_push(b, items) == [b EXCEPT !.disabled_classes = @ \o items]

\* one pseudo-class group of the output: format!("hover:({})", v.join(" "))
PseudoGroup(prefix, v) ==
    IF v = <<>> THEN <<>> ELSE << <<prefix>> \o join(v, <<SP>>) \o <<")">> >>

\* a build that emits the focus group before the hover group
InteractiveBase_build_focus_first(b) ==
    join(b.base_classes
            \o PseudoGroup("focus:(", b.focus_classes)
            \o PseudoGroup("hover:(", b.hover_classes)
            \o PseudoGroup("active:(", b.active_classes)
            \o PseudoGroup("disabled:(", b.disabled_classes),
         <<SP>>)

\* InteractiveBase::build, which every build() of the file ends in
InteractiveBase_build(b) ==
    join(b.base_classes
            \o PseudoGroup("hover:(", b.hover_classes)
            \o PseudoGroup("focus:(", b.focus_classes)
            \o PseudoGroup("active:(", b.active_classes)
            \o PseudoGroup("disabled:(", b.disabled_classes),
         <<SP>>)

\* the methods each builder type offers, with the arguments they are given
InteractiveMethods(f, g) ==
    CASE g = "base" /\ f = "InteractiveBase" -> {"base"} \X ClassArguments
      [] g = "base" /\ f = "InputBuilder" ->
            ({"base_classes"} \X ClassArguments)
                \cup ({"base_style", "standard_style"} \X {<<>>})
      [] g = "base" /\ f = "ButtonBuilder" ->
            ({"base_classes"} \X ClassArguments)
                \cup ({"primary", "secondary", "ghost"} \X {<<>>})
      [] g = "hover" ->
            ({"classes"} \X ClassArguments)
                \cup ({"border_primary", "bg_primary", "darken", "scale_105", "shadow_md",
                       "shadow_lg"} \X {<<>>})
      [] g = "focus" ->
            ({"classes"} \X ClassArguments)
                \cup ({"border_primary", "outline_none", "ring_primary"} \X {<<>>})
      [] g = "active" -> ({"classes"} \X ClassArguments) \cup ({"scale_95"} \X {<<>>})
      [] g = "disabled" ->
            ({"classes"} \X ClassArguments)
                \cup ({"opacity_50", "cursor_not_allowed"} \X {<<>>})

\* the sub-builders a builder of type g can be turned into
InteractiveEntries(f, g) ==
    CASE g = "base" /\ f = "InputBuilder" -> {"hover", "focus", "disabled"}
      [] g = "base" -> {"hover", "focus", "active", "disabled"}
      [] g = "disabled" -> {}
      [] OTHER -> ({"hover", "focus", "active"} \ {g}) \cup {"disabled"}

InteractiveConfiguring == family \in InteractiveFamilies /\ phase = "configuring"

\* a class-adding call: nb is the builder it returns
InteractiveChain(nb, op, arg) ==
    /\ Len(builder.calls) < MaxChanged
    /\ builder' = [nb EXCEPT !.calls = Append(@, [at |-> builder.at, op |-> op, arg |-> arg])]
    /\ last' = Call(op, arg)
    /\ out' = <<>>
    /\ UNCHANGED <<provider, family, phase>>

InteractiveBaseCall(op, arg) ==
    /\ InteractiveConfiguring
    /\ builder.at = "base"
    /\ <<op, arg>> \in InteractiveMethods(family, "base")
    /\ InteractiveChain(InteractiveBase_push(builder, BaseItems(provider.palette, op, arg)),
                        op, arg)

HoverBuilderCall(op, arg) ==
    /\ InteractiveConfiguring
    /\ builder.at = "hover"
    /\ InteractiveChain(HoverBuilder_push(builder, HoverBuilder_items(provider.palette, op, arg)),
                        op, arg)

FocusBuilderCall(op, arg) ==
    /\ InteractiveConfiguring
    /\ builder.at = "focus"
    /\ InteractiveChain(FocusBuilder_push(builder, FocusBuilder_items(provider.palette, op, arg)),
                        op, arg)

ActiveBuilderCall(op, arg) ==
    /\ InteractiveConfiguring
    /\ builder.at = "active"
    /\ InteractiveChain(ActiveBuilder_push(builder, ActiveBuilder_items(provider.palette, op, arg)),
                        op, arg)

DisabledBuilderCall(op, arg) ==
    /\ InteractiveConfiguring
    /\ builder.at = "disabled"
    /\ InteractiveChain(DisabledBuilder_push(builder,
                                             DisabledBuilder_items(provider.palette, op, arg)),
                        op, arg)

\* hover(), focus(), active(), disabled(): the base is moved into the
\* sub-builder of group g
InteractiveEnter(g) ==
    /\ InteractiveConfiguring
    /\ g \in InteractiveEntries(family, builder.at)
    /\ builder' = [builder EXCEPT !.at = g]
    /\ last' = Call(g, "")
    /\ out' = <<>>
    /\ UNCHANGED <<provider, family, phase>>

InteractiveBuild ==
    /\ InteractiveConfiguring
    /\ Finish(InteractiveBase_build(builder))
    /\ last' = Call("build", "")

InteractiveProviders ==
    {NewProvider("themes::VibeColors"), NewProvider("core::VibeColors"),
     OverriddenProvider("core::VibeColors", Overrides[3])}

InteractiveInit ==
    /\ provider \in InteractiveProviders
    /\ family \in InteractiveFamilies
    /\ builder = InteractiveBase_new
    /\ phase = "configuring"
    /\ out = <<>>
    /\ last = NoCall

InteractiveNext ==
    \/ \E m \in UNION {InteractiveMethods(f, "base") : f \in InteractiveFamilies} :
          InteractiveBaseCall(m[1], m[2])
    \/ \E m \in InteractiveMethods("InteractiveBase", "hover") : HoverBuilderCall(m[1], m[2])
    \/ \E m \in InteractiveMethods("InteractiveBase", "focus") : FocusBuilderCall(m[1], m[2])
    \/ \E m \in InteractiveMethods("InteractiveBase", "active") : ActiveBuilderCall(m[1], m[2])
    \/ \E m \in InteractiveMethods("InteractiveBase", "disabled") :
          DisabledBuilderCall(m[1], m[2])
    \/ \E g \in Range(InteractiveGroups) \ {"base"} : InteractiveEnter(g)
    \/ InteractiveBuild

SpecInteractive == InteractiveInit /\ [][InteractiveNext]_vars

\* the items the calls made on the builder of group g added, in call order
RECURSIVE GroupItems(_, _, _)
GroupItems(p, calls, g) ==
    IF calls = <<>> THEN <<>>
    ELSE (IF Head(calls).at = g THEN ItemsOf(p, g, Head(calls).op, Head(calls).arg) ELSE <<>>)
            \o GroupItems(p, Tail(calls), g)

\* the String the groups make: the base items, then one prefixed group for
\* each non-empty list, in the order hover, focus, active, disabled
GroupsInOrder(p, calls) ==
    join(GroupItems(p, calls, "base")
            \o PseudoGroup("hover:(", GroupItems(p, calls, "hover"))
            \o PseudoGroup("focus:(", GroupItems(p, calls, "focus"))
            \o PseudoGroup("active:(", GroupItems(p, calls, "active"))
            \o PseudoGroup("disabled:(", GroupItems(p, calls, "disabled")),
         <<SP>>)

\* C22: for InteractiveBase, InputBuilder and ButtonBuilder the String built
\* depends only on the classes each pseudo-class group was given, in the
\* order they were given within the group, not on the order in which the
\* hover, focus and active sub-builders were visited: the groups are emitted
\* in the order base, hover, focus, active, disabled, empty groups left out.
C22_ChainingOrderIsIrrelevant ==
    (family \in InteractiveFamilies /\ phase = "finalized")
    => out = GroupsInOrder(provider.palette, builder.calls)

C22_Witness ==
    /\ family = "InputBuilder" /\ phase = "finalized"
    /\ Len(builder.calls) = 2
    /\ builder.calls[1].at = "focus" /\ builder.calls[1].op = "ring_primary"
    /\ builder.calls[2].at = "hover" /\ builder.calls[2].op = "border_primary"
    /\ out = GroupsInOrder(provider.palette,
                           <<builder.calls[2], builder.calls[1]>>)


\* str::starts_with for a prefix that is a fragment of its own
starts_with(s, prefix) == s # <<>> /\ Head(s) = prefix

\* the last n elements of the Vec v
LastItems(v, n) == SubSeq(v, Len(v) - n + 1, Len(v))

\* C30: on every palette the classes the colour helpers of the focus
\* sub-builder add are prefixed utility classes: border_primary adds one
\* class that starts with border-, ring_primary adds ring-2, ring-offset-2
\* and a ring colour class that starts with ring-; no bare colour name is added.
C30_FocusColourHelpersAddPrefixedClasses ==
    (family \in InteractiveFamilies /\ phase = "configuring" /\ builder.at = "focus")
    => /\ last.op = "border_primary"
            => starts_with(LastItems(builder.focus_classes, 1)[1], "border-")
       /\ last.op = "ring_primary"
            => /\ SubSeq(LastItems(builder.focus_classes, 3), 1, 2)
                    = << <<"ring-2">>, <<"ring-offset-2">> >>
               /\ starts_with(LastItems(builder.focus_classes, 3)[3], "ring-")


\* the hover:shadow-* utilities
HoverShadowTokens ==
    {"hover:shadow-none", "hover:shadow-sm", "hover:shadow", "hover:shadow-md",
     "hover:shadow-lg", "hover:shadow-xl", "hover:shadow-2xl"}

\* C26: for every elevation, surface, spacing, interaction and selection, and
\* with no custom classes, the CardStyles output holds at most one
\* hover:shadow-* token.
C26_AtMostOneHoverShadow ==
    (Finalized("CardStyles") /\ builder.custom_classes = <<>>)
    => LET ts == split_whitespace(out)
       IN  Cardinality({i \in DOMAIN ts : ts[i] \in HoverShadowTokens}) <= 1


-----------------------------------------------------------------------------
(* builders/text.rs: overflow, clamp_style and text_classes_from_strings   *)

\* a get_clamp_style that answers for Truncate as well
TypographyPattern_get_clamp_style_any(b) ==
    IF b.overflow # <<"Normal">>
    THEN <<"display: -webkit-box; -webkit-line-clamp: ",
           IF Len(b.overflow) = 2 THEN ToString(b.overflow[2]) ELSE "1",
           "; -webkit-box-orient: vertical; overflow: hidden;">>
    ELSE <<>>

\* TypographyPattern::get_clamp_style, which TextStyles::clamp_style returns
TypographyPattern_get_clamp_style(b) ==
    IF b.overflow[1] = "Clamp"
    THEN <<"display: -webkit-box; -webkit-line-clamp: ", ToString(b.overflow[2]),
           "; -webkit-box-orient: vertical; overflow: hidden;">>
    ELSE <<>>

\* clamp_style(&self)
TextClampStyle ==
    /\ Configuring("TextStyles")
    /\ Borrow(TypographyPattern_get_clamp_style(builder))
    /\ last' = Call("clamp_style", "")

\* a text_classes_from_strings that looks at truncate after clamp_lines
text_classes_from_strings_truncate_last(p, hierarchy, size, weight, color, alignment, truncate, clamp_lines, custom_classes) ==
    LET b1 == TextStyles_hierarchy_str(TextStyles_new, hierarchy)
        b2 == IF size # None THEN TextStyles_size_str(b1, size) ELSE b1
        b3 == IF weight # None THEN TextStyles_weight_str(b2, weight) ELSE b2
        b4 == IF color # None THEN TextStyles_color_str(b3, color) ELSE b3
        b5 == IF alignment # None THEN TextStyles_alignment_str(b4, alignment) ELSE b4
        b6 == IF clamp_lines # <<>> THEN [b5 EXCEPT !.overflow = <<"Clamp", clamp_lines[1]>>]
              ELSE b5
        b7 == IF truncate THEN [b6 EXCEPT !.overflow = <<"Truncate">>] ELSE b6
        b8 == IF custom_classes # <<>> /\ ~is_empty(custom_classes[1])
              THEN [b7 EXCEPT !.custom_classes = Append(@, custom_classes[1])]
              ELSE b7
    IN  TextStyles_classes(p, b8)

\* builders/text.rs: text_classes_from_strings; an absent Option<&str> of a
\* setter name is None, an Option<u32> and the Option of the custom classes
\* are tuples of at most one element
text_classes_from_strings(p, hierarchy, size, weight, color, alignment, truncate, clamp_lines, custom_classes) ==
    LET b1 == TextStyles_hierarchy_str(TextStyles_new, hierarchy)
        b2 == IF size # None THEN TextStyles_size_str(b1, size) ELSE b1
        b3 == IF weight # None THEN TextStyles_weight_str(b2, weight) ELSE b2
        b4 == IF color # None THEN TextStyles_color_str(b3, color) ELSE b3
        b5 == IF alignment # None THEN TextStyles_alignment_str(b4, alignment) ELSE b4
        b6 == IF truncate THEN [b5 EXCEPT !.overflow = <<"Truncate">>] ELSE b5
        b7 == IF clamp_lines # <<>> THEN [b6 EXCEPT !.overflow = <<"Clamp", clamp_lines[1]>>]
              ELSE b6
        b8 == IF custom_classes # <<>> /\ ~is_empty(custom_classes[1])
              THEN [b7 EXCEPT !.custom_classes = Append(@, custom_classes[1])]
              ELSE b7
    IN  TextStyles_classes(p, b8)

\* the argument lists text_classes_from_strings is called with
TextArguments ==
    [hierarchy : {"title", "body", "invalid-value"},
     size : {None, "lg"},
     weight : {None, "bold"},
     color : {None, "primary"},
     alignment : {None, "center"},
     truncate : BOOLEAN,
     clamp_lines : {<<>>} \cup {<<n>> : n \in ClampLines},
     custom_classes : {<<>>, << <<"custom-class">> >>, << <<>> >>}]

\* one call: builder holds the arguments, out the returned String
TextClassesFromStrings ==
    /\ Configuring("text_classes_from_strings")
    /\ Finish(text_classes_from_strings(
                  provider.palette, builder.hierarchy, builder.size, builder.weight,
                  builder.color, builder.alignment, builder.truncate,
                  builder.clamp_lines, builder.custom_classes))
    /\ last' = Call("text_classes_from_strings", "")

TextInit ==
    /\ provider = NewProvider("themes::VibeColors")
    /\ family \in {"TextStyles", "text_classes_from_strings"}
    /\ builder \in IF family = "TextStyles" THEN {TextStyles_new} ELSE TextArguments
    /\ phase = "configuring"
    /\ out = <<>>
    /\ last = NoCall

TextNext ==
    \/ TextSetters
    \/ TextCustoms
    \/ TextClasses
    \/ TextClampStyle
    \/ TextClassesFromStrings

SpecText == TextInit /\ [][TextNext]_vars

\* C28: in TextStyles truncation and line clamping exclude each other and
\* the last overflow call wins: classes() holds the token truncate exactly
\* when the last overflow call was truncate(), clamp_style() is non-empty
\* exactly when it was clamp_lines(n), and text_classes_from_strings called
\* with truncate = true and clamp_lines = Some(n) returns no truncate token.
C28_LastOverflowCallWins ==
    /\ []((family = "TextStyles" /\ last.op = "classes")
            => ("truncate" \in Range(split_whitespace(out))
                  <=> builder.overflow = <<"Truncate">>))
    /\ []((family = "TextStyles" /\ last.op = "clamp_style")
            => (out # <<>> <=> builder.overflow \in {<<"Clamp", n>> : n \in ClampLines}))
    /\ []((Finalized("text_classes_from_strings") /\ builder.clamp_lines # <<>>)
            => "truncate" \notin Range(split_whitespace(out)))
    /\ []((Finalized("text_classes_from_strings") /\ builder.clamp_lines = <<>>)
            => ("truncate" \in Range(split_whitespace(out)) <=> builder.truncate))
    /\ [][family = "TextStyles"
            => /\ \A x \in TypographyOverflow :
                    TextSetOverflow(x) => builder'.overflow = x
               /\ (~\E x \in TypographyOverflow : TextSetOverflow(x))
                    => builder'.overflow = builder.overflow]_vars

C28_Witness ==
    /\ Finalized("text_classes_from_strings")
    /\ builder.truncate
    /\ builder.clamp_lines # <<>>
    /\ builder.hierarchy = "title"
    /\ out # <<>>
    /\ "truncate" \notin Range(split_whitespace(out))


\* the ButtonStyles value with the fields of the component style and no
\* custom classes
ButtonStylesOf(style) ==
    [variant |-> style.variant, size |-> style.size, state |-> style.state,
     full_width |-> style.full_width, with_icon |-> style.with_icon,
     custom_classes |-> <<>>]

\* C29: for every variant, size, state, full_width and with_icon and every
\* palette, components::Button::build() returns the same sequence of tokens
\* as builders::ButtonStyles with the same fields and no custom classes.
\* The second conjunct compares the two functions on every style value, once
\* for each palette, at the freshly constructed Button.
C29_ComponentButtonMatchesButtonStyles ==
    /\ Finalized("Button")
        => split_whitespace(out)
             = split_whitespace(ButtonStyles_build(provider.palette, ButtonStylesOf(builder)))
    /\ (Configuring("Button") /\ builder = Button_new)
        => \A style \in [variant : ButtonVariant, size : Size, state : ButtonState,
                         full_width : BOOLEAN, with_icon : BOOLEAN] :
              split_whitespace(Button_build(provider.palette, style))
                = split_whitespace(ButtonStyles_build(provider.palette, ButtonStylesOf(style)))

C29_Witness ==
    /\ Finalized("Button")
    /\ builder.state = "Hover"
    /\ builder.full_width
    /\ {"hover:scale-105", "w-full"} \subseteq Range(split_whitespace(out))


====
